---- MODULE Spec2Model ----
(***************************************************************************)
(* Verification model of the virtual-DOM reconciler (core/vdom/patch.js),  *)
(* the component lifecycle around it (core/instance/lifecycle.js) and the  *)
(* template compiler (compiler/parser, optimizer, codegen).                *)
(*                                                                         *)
(* The module holds several specifications, one per subsystem; each one    *)
(* drives its own group of variables and leaves the other groups alone.    *)
(*                                                                         *)
(* Array indices are 1-based here (JavaScript index i is i + 1).           *)
(***************************************************************************)
EXTENDS Integers, Sequences, FiniteSets, TLC

VARIABLES
  \* ---- updateChildren (patch.js 426-500) ----
  oldCh,          \* old sibling list; a moved entry is Undefined
  newCh,          \* new sibling list; elm filled in as nodes are patched/created
  oldStartIdx, oldEndIdx, newStartIdx, newEndIdx,
  oldKeyToIdx,    \* [built, map]: the lazily built key -> old index map
  removeOnly,     \* the removeOnly argument
  parentElm,      \* the live children of the parent element, in order
  nextElm,        \* the next fresh live-node id handed out by nodeOps.create*
  ucPc,           \* "loop" | "done" | "raised"
  patched,        \* set of <<old index, new index>> pairs given to patchVnode
  createdAt,      \* sequence of new indices given to createElm
  removedElms,    \* sequence of live nodes detached by removeVnodes
  destroyedAt,    \* sequence of old indices given to invokeDestroyHook
  moves,          \* sequence of live nodes repositioned by nodeOps.insertBefore
  warnings,       \* keys reported by checkDuplicateKeys(newCh)
  oldArg,         \* the old sibling list as it was passed in (never written)
  \* ---- parse (compiler/parser/index.js 81-442) ----
  ast,            \* every AST node created so far, by id (its index)
  root,           \* id of the root element, NoNode while undefined
  currentParent,  \* id of the current parent, NoNode while undefined
  stack,          \* ids of the open elements, innermost last
  inVPre,         \* inside an element that carries v-pre
  warned,         \* warnOnce has fired
  parseWarnings,  \* the diagnostics given to warn, in order
  parsePc,        \* "parsing" | "returned" | "raised"
  \* ---- active instance (core/instance/lifecycle.js) ----
  activeInstance, \* the module-level activeInstance, NoVm while null
  callStack,      \* the _update calls whose patch is running, innermost last
  instances,      \* the component instances constructed so far
  vmParent,       \* per instance, the parent option it was constructed with
  lastExit,       \* the latest exit from a patch call made by _update
  \* ---- mounting a tree with nested components (patch.js createElm) ----
  mNodes,         \* the vnodes met so far, by id: kind, parent, up, hasInsert
  mFrames,        \* the running patch / createElm calls, innermost last
  mQueues,        \* the insertedVnodeQueue of each running patch call
  pendingInsert,  \* per vnode, data.pendingInsert (Null while not set)
  mCreated,       \* the vnodes whose elm has been set
  insertLog,      \* the insert hooks fired: vnode and patch nesting depth
  hookLog,        \* create-time hook calls and queue pushes, in call order
  \* ---- removing a child (patch.js removeVnodes) ----
  rmChain,        \* the removed vnode and, below it, the rendered roots of the
                  \* components nested in it: hasData, hasRemove, kids
  rmTagged,       \* the removed vnode has a tag
  rmModules,      \* cbs.remove.length
  rmListeners,    \* remove.listeners of the rm callback (0 while none exists)
  rmOutstanding,  \* the listeners that kept rm to call it later
  rmCalls,        \* how many times rm has been called
  rmAttached,     \* the removed vnode's elm is a child of its parent
  rmLog,          \* "detach" and <<"destroy", vnode>> events, in order
  rmPc,           \* "before" | "removed"
  \* ---- hydration (patch.js hydrate, patch) ----
  hDom,           \* the live root as the server rendered it (never written)
  hVnode,         \* the vnode given to patch
  hProduction,    \* process.env.NODE_ENV === 'production'
  hParent,        \* the live children of the root's parent element
  hResult,        \* "pending" | "hydrated" | "recreated" | "raised"
  hWarned,        \* the bail-out diagnostic was given to warn
  \* ---- _render (core/instance/render.js) ----
  rHasRenderError, \* vm.$options.renderError is defined
  rProduction,    \* process.env.NODE_ENV === 'production'
  rVnode,         \* vm._vnode, the tree of the previous render (NoVnode while null)
  rCount,         \* how many times _render has been called
  rLast,           \* the latest _render call: its inputs and what it did
  oAst,  \* optimizer: the AST handed to optimize, node id -> node (root is node 1)
  oRuns,  \* optimizer: how many times optimize has run on oAst
  oFirst,  \* optimizer: the AST as the first optimize run left it (<<>> before)
  gAst,  \* codegen: the AST handed to generate, node id -> node (root is node 1)
  gPrev,  \* codegen: per node, the last element closed directly below it (0: none)
  gDone,  \* codegen: generate has run
  gCode,  \* codegen: the code of the render function generate returned
  gFns,  \* codegen: the staticRenderFns list generate returned
  gOut,  \* codegen: the AST as generate left it (processed flags set)
  gWarned,  \* codegen: the diagnostics generate issued
  gSecond,  \* codegen: <<code, staticRenderFns>> of a second generate call (<<>> before)
  tOld,  \* tree patch: the vnode tree of the first render (elm set once mounted)
  tNew,  \* tree patch: the vnode tree of the second render (<<>> before it)
  tDom,  \* tree patch: the live nodes, by id: parent, child nodes, text
  tOps,  \* tree patch: the nodeOps calls the patch made on the live tree
  tPatched,  \* tree patch: the <<old, new>> pairs given to patchVnode, in order
  tDiffed,  \* tree patch: the <<old, new>> pairs whose children updateChildren diffed
  tRemoveOnly,  \* tree patch: the removeOnly argument of the patch
  tPc,  \* tree patch: "idle" | "old" | "mounted" | "patched" | "raised"
  sInFor,  \* static trees: per index, whether genStatic emitted _m(index, true)
  sTrees,  \* static trees: vm._staticTrees, per index the cached tree (NoTree: none)
  sMade,  \* static trees: how many trees the static render functions have returned
  sLog,  \* static trees: the renderStatic calls so far and what each returned
  bTree,          \* the vnode tree patch is given for a server-rendered element
  bPc,            \* where that patch is: hydrate, bailed, created, hydrated, done
  bBailed,        \* hydrate returned false and patch went on to createElm
  bQueue,         \* insertedVnodeQueue of that patch
  bInsts,         \* component instances constructed so far, in order
  bFired,          \* insert hooks and mounted callbacks invoked so far, in order
  kaMax,          \* keep-alive: the max prop
  kaCache,        \* this.cache: key to cached vnode, or NoEntry for null / absent
  kaKeys,         \* this.keys
  kaVnode,        \* this._vnode: the child vnode on display
  kaPending,      \* the vnode render returned and _update has not patched yet
  kaInsts,        \* the child instances constructed so far
  kaRenders,      \* the renders so far: the key each one cached, or NotCached
  kaPruned,        \* the instances pruneCacheEntry removed from the cache
  rpOld,          \* replacing a root: the old root vnode as patch finds it
  rpDom,          \* the child nodes of the old element's parent, by name
  rpHasParent,    \* the old element has a parent node
  rpAncestors,    \* elm of the new vnode's placeholder chain, nearest first
  rpWaiting,      \* remove hooks that kept the rm callback and have not called
  rpLog,          \* what patch did to the live tree, in order
  rpPc            \* patch, returned

ucVars == <<oldCh, newCh, oldStartIdx, oldEndIdx, newStartIdx, newEndIdx,
            oldKeyToIdx, removeOnly, parentElm, nextElm, ucPc, patched,
            createdAt, removedElms, destroyedAt, moves, warnings, oldArg>>

parseVars == <<ast, root, currentParent, stack, inVPre, warned, parseWarnings, parsePc>>

lcVars == <<activeInstance, callStack, instances, vmParent, lastExit>>

mountVars == <<mNodes, mFrames, mQueues, pendingInsert, mCreated, insertLog, hookLog>>

rmVars == <<rmChain, rmTagged, rmModules, rmListeners, rmOutstanding, rmCalls,
            rmAttached, rmLog, rmPc>>

hydVars == <<hDom, hVnode, hProduction, hParent, hResult, hWarned>>

renderVars == <<rHasRenderError, rProduction, rVnode, rCount, rLast>>

optVars == <<oAst, oRuns, oFirst>>

genVars == <<gAst, gPrev, gDone, gCode, gFns, gOut, gWarned, gSecond>>

treeVars == <<tOld, tNew, tDom, tOps, tPatched, tDiffed, tRemoveOnly, tPc>>

staticVars == <<sInFor, sTrees, sMade, sLog>>

bailVars == <<bTree, bPc, bBailed, bQueue, bInsts, bFired>>

kaVars == <<kaMax, kaCache, kaKeys, kaVnode, kaPending, kaInsts, kaRenders, kaPruned>>

rpVars == <<rpOld, rpDom, rpHasParent, rpAncestors, rpWaiting, rpLog, rpPc>>

vars == <<ucVars, parseVars, lcVars, mountVars, rmVars, hydVars, renderVars, optVars, genVars, treeVars, staticVars, bailVars, kaVars, rpVars>>

\* What each subsystem leaves alone.
OutsideUC == <<parseVars, lcVars, mountVars, rmVars, hydVars, renderVars, optVars, genVars, treeVars, staticVars, bailVars, kaVars, rpVars>>
OutsideParse == <<ucVars, lcVars, mountVars, rmVars, hydVars, renderVars, optVars, genVars, treeVars, staticVars, bailVars, kaVars, rpVars>>
OutsideLc == <<ucVars, parseVars, mountVars, rmVars, hydVars, renderVars, optVars, genVars, treeVars, staticVars, bailVars, kaVars, rpVars>>
OutsideMount == <<ucVars, parseVars, lcVars, rmVars, hydVars, renderVars, optVars, genVars, treeVars, staticVars, bailVars, kaVars, rpVars>>
OutsideRm == <<ucVars, parseVars, lcVars, mountVars, hydVars, renderVars, optVars, genVars, treeVars, staticVars, bailVars, kaVars, rpVars>>
OutsideHyd == <<ucVars, parseVars, lcVars, mountVars, rmVars, renderVars, optVars, genVars, treeVars, staticVars, bailVars, kaVars, rpVars>>
OutsideRender == <<ucVars, parseVars, lcVars, mountVars, rmVars, hydVars, optVars, genVars, treeVars, staticVars, bailVars, kaVars, rpVars>>
OutsideOpt == <<ucVars, parseVars, lcVars, mountVars, rmVars, hydVars, renderVars, genVars, treeVars, staticVars, bailVars, kaVars, rpVars>>
OutsideGen == <<ucVars, parseVars, lcVars, mountVars, rmVars, hydVars, renderVars, optVars, treeVars, staticVars, bailVars, kaVars, rpVars>>
OutsideTree == <<ucVars, parseVars, lcVars, mountVars, rmVars, hydVars, renderVars, optVars, genVars, staticVars, bailVars, kaVars, rpVars>>
OutsideStatic == <<ucVars, parseVars, lcVars, mountVars, rmVars, hydVars, renderVars, optVars, genVars, treeVars, bailVars, kaVars, rpVars>>
OutsideBail == <<ucVars, parseVars, lcVars, mountVars, rmVars, hydVars, renderVars, optVars, genVars, treeVars, staticVars, kaVars, rpVars>>
OutsideKa == <<ucVars, parseVars, lcVars, mountVars, rmVars, hydVars, renderVars, optVars, genVars, treeVars, staticVars, bailVars, rpVars>>
OutsideRp == <<ucVars, parseVars, lcVars, mountVars, rmVars, hydVars, renderVars, optVars, genVars, treeVars, staticVars, bailVars, kaVars>>

(***************************************************************************)
(* Generic helpers                                                         *)
(***************************************************************************)
SeqToSet(s) == {s[i] : i \in 1..Len(s)}

IndexOf(s, x) == IF \E i \in 1..Len(s) : s[i] = x
                 THEN CHOOSE i \in 1..Len(s) : s[i] = x /\ \A j \in 1..(i-1) : s[j] # x
                 ELSE 0

RemoveAt(s, i) == SubSeq(s, 1, i - 1) \o SubSeq(s, i + 1, Len(s))

InsertAt(s, i, x) == SubSeq(s, 1, i - 1) \o <<x>> \o SubSeq(s, i, Len(s))

Without(s, x) == IF IndexOf(s, x) = 0 THEN s ELSE RemoveAt(s, IndexOf(s, x))

(***************************************************************************)
(* Bounds of the sibling-list diff                                         *)
(***************************************************************************)
MaxLen == 3          \* longest old / new sibling list
MaxKey == 4          \* keys are 1..MaxKey; NoKey stands for an undefined key

NoKey == 0
NoElm == 0
Keys == 1..MaxKey
Tags == {"div", "span"}

\* A vnode as the diff reads it: key, tag, isComment, definedness of data, elm.
VNode(key, tag, data) ==
  [key |-> key, tag |-> tag, isComment |-> FALSE, data |-> data, elm |-> NoElm]

\* The value of an array slot that holds undefined.
Undefined == [key |-> NoKey, tag |-> "<undefined>", isComment |-> FALSE,
              data |-> FALSE, elm |-> NoElm]

isUndef(v) == v = Undefined
isDef(v) == v # Undefined

(***************************************************************************)
(* sameVnode / sameInputType (patch.js 35-58)                              *)
(***************************************************************************)
\* Neither list holds <input> elements, so typeA and typeB are never read.
sameInputType(a, b) == IF a.tag # "input" THEN TRUE ELSE FALSE

\* sameVnode without the comparison of the tags.
sameVnode_keyOnly(a, b) ==
  /\ a.key = b.key
  /\ /\ a.isComment = b.isComment
     /\ a.data = b.data
     /\ sameInputType(a, b)

\* The async-placeholder disjunct is false: no vnode of the lists is one.
sameVnode(a, b) ==
  /\ a.key = b.key
  /\ /\ a.tag = b.tag
     /\ a.isComment = b.isComment
     /\ a.data = b.data
     /\ sameInputType(a, b)

(***************************************************************************)
(* nodeOps on the parent's live child list                                 *)
(***************************************************************************)
\* nodeOps.parentNode(el) === parentElm
inParent(dom, e) == e # NoElm /\ e \in SeqToSet(dom)

\* nodeOps.nextSibling(el): null (NoElm) for the last child or a detached node
nextSibling(dom, e) ==
  IF inParent(dom, e) /\ IndexOf(dom, e) < Len(dom) THEN dom[IndexOf(dom, e) + 1]
  ELSE NoElm

\* nodeOps.insertBefore(parent, el, ref) raises NotFoundError when ref is
\* neither null nor a child of parent.
insertBeforeRaises(dom, e, ref) == ref # NoElm /\ ~inParent(dom, ref)

\* nodeOps.insertBefore(parent, el, ref): el leaves its old place first;
\* ref = null appends.
insertBefore(dom, e, ref) ==
  IF e = ref THEN dom
  ELSE LET d == Without(dom, e)
       IN IF ref = NoElm THEN Append(d, e) ELSE InsertAt(d, IndexOf(d, ref), e)

\* insert that appends whatever ref is.
insert_ignoresRef(dom, e, ref) == Append(Without(dom, e), e)

\* insert (patch.js 281-291): a defined ref that is not a child of parent
\* means nothing is inserted.
insert(dom, e, ref) ==
  IF ref # NoElm
  THEN IF inParent(dom, ref) THEN insertBefore(dom, e, ref) ELSE dom
  ELSE Append(Without(dom, e), e)

\* removeNode (patch.js 99-105)
removeNode(dom, e) == IF inParent(dom, e) THEN Without(dom, e) ELSE dom

(***************************************************************************)
(* createKeyToOldIdx, findIdxInOld, checkDuplicateKeys                     *)
(***************************************************************************)
NoIdx == 0     \* undefined index

\* createKeyToOldIdx (patch.js 60-68): the last index wins for a repeated key.
createKeyToOldIdx(children, beginIdx, endIdx) ==
  [k \in Keys |->
     LET hits == {i \in beginIdx..endIdx : children[i].key = k}
     IN IF hits = {} THEN NoIdx ELSE CHOOSE i \in hits : \A j \in hits : j <= i]

\* findIdxInOld that stops one slot earlier.
findIdxInOld_stopsEarly(node, children, start, end) ==
  LET hits == {i \in start..(end - 2) : isDef(children[i]) /\ sameVnode(node, children[i])}
  IN IF hits = {} THEN NoIdx ELSE CHOOSE i \in hits : \A j \in hits : i <= j

\* findIdxInOld (patch.js 520-525): scans start <= i < end, end excluded.
findIdxInOld(node, children, start, end) ==
  LET hits == {i \in start..(end - 1) : isDef(children[i]) /\ sameVnode(node, children[i])}
  IN IF hits = {} THEN NoIdx ELSE CHOOSE i \in hits : \A j \in hits : i <= j

\* checkDuplicateKeys (patch.js 502-518): the warnings it emits, in order.
RECURSIVE checkDuplicateKeysFrom(_, _, _)
checkDuplicateKeysFrom(children, i, seenKeys) ==
  IF i > Len(children) THEN <<>>
  ELSE LET key == children[i].key
       IN IF key # NoKey
          THEN IF key \in seenKeys
               THEN <<key>> \o checkDuplicateKeysFrom(children, i + 1, seenKeys)
               ELSE checkDuplicateKeysFrom(children, i + 1, seenKeys \cup {key})
          ELSE checkDuplicateKeysFrom(children, i + 1, seenKeys)

checkDuplicateKeys(children) == checkDuplicateKeysFrom(children, 1, {})

(***************************************************************************)
(* The steps updateChildren is built from                                  *)
(***************************************************************************)
\* patchVnode (patch.js 527-600) on a pair of childless siblings: the new
\* vnode takes over the old vnode's live node (line 544).
patchVnode(ch, idx, oldVnode) == [ch EXCEPT ![idx].elm = oldVnode.elm]

\* createElm (patch.js 125-211) for a childless sibling: a fresh live node is
\* created, stored in vnode.elm and handed to insert.
createElm(dom, ch, next, idx, refElm) ==
  [dom |-> insert(dom, next, refElm),
   ch |-> [ch EXCEPT ![idx].elm = next],
   next |-> next + 1,
   created |-> <<idx>>]

\* addVnodes (patch.js 362-366)
RECURSIVE addVnodes(_, _, _, _, _, _)
addVnodes(dom, vnodes, next, startIdx, endIdx, refElm) ==
  IF startIdx > endIdx
  THEN [dom |-> dom, ch |-> vnodes, next |-> next, created |-> <<>>]
  ELSE LET one == createElm(dom, vnodes, next, startIdx, refElm)
           rest == addVnodes(one.dom, one.ch, one.next, startIdx + 1, endIdx, refElm)
       IN [rest EXCEPT !.created = one.created \o rest.created]

\* removeVnodes (patch.js 382-394) with no pending remove listener: a child
\* with a tag goes through removeAndInvokeRemoveHook, whose rm callback
\* detaches at once, and then through invokeDestroyHook; a text node is
\* detached by removeNode.
RECURSIVE removeVnodes(_, _, _, _)
removeVnodes(dom, vnodes, startIdx, endIdx) ==
  IF startIdx > endIdx
  THEN [dom |-> dom, removed |-> <<>>, destroyed |-> <<>>]
  ELSE LET ch == vnodes[startIdx]
           here == IF isDef(ch)
                   THEN [dom |-> removeNode(dom, ch.elm),
                         removed |-> IF inParent(dom, ch.elm) THEN <<ch.elm>> ELSE <<>>,
                         destroyed |-> IF ch.tag # "" THEN <<startIdx>> ELSE <<>>]
                   ELSE [dom |-> dom, removed |-> <<>>, destroyed |-> <<>>]
           rest == removeVnodes(here.dom, vnodes, startIdx + 1, endIdx)
       IN [dom |-> rest.dom,
           removed |-> here.removed \o rest.removed,
           destroyed |-> here.destroyed \o rest.destroyed]

\* The loop condition of updateChildren (line 448).
InLoop == ucPc = "loop" /\ oldStartIdx <= oldEndIdx /\ newStartIdx <= newEndIdx

oldStartVnode == oldCh[oldStartIdx]
oldEndVnode == oldCh[oldEndIdx]
newStartVnode == newCh[newStartIdx]
newEndVnode == newCh[newEndIdx]

canMove_always == TRUE
canMove == ~removeOnly

ucLog == <<patched, createdAt, removedElms, destroyedAt, moves>>
ucArgs == <<removeOnly, warnings, oldArg>>

\* line 449-450
SkipOldStart ==
  /\ InLoop
  /\ isUndef(oldStartVnode)
  /\ oldStartIdx' = oldStartIdx + 1
  /\ UNCHANGED <<oldCh, newCh, oldEndIdx, newStartIdx, newEndIdx, oldKeyToIdx,
                 parentElm, nextElm, ucPc, ucLog, ucArgs>>

\* line 451-452
SkipOldEnd ==
  /\ InLoop
  /\ isDef(oldStartVnode)
  /\ isUndef(oldEndVnode)
  /\ oldEndIdx' = oldEndIdx - 1
  /\ UNCHANGED <<oldCh, newCh, oldStartIdx, newStartIdx, newEndIdx, oldKeyToIdx,
                 parentElm, nextElm, ucPc, ucLog, ucArgs>>

BothDefined == isDef(oldStartVnode) /\ isDef(oldEndVnode)

\* line 453-456
\* the start-start case without its ++oldStartIdx and ++newStartIdx
PatchStartStart_staysPut ==
  /\ InLoop
  /\ BothDefined
  /\ sameVnode(oldStartVnode, newStartVnode)
  /\ newCh' = patchVnode(newCh, newStartIdx, oldStartVnode)
  /\ patched' = patched \cup {<<oldStartIdx, newStartIdx>>}
  /\ UNCHANGED <<oldCh, oldStartIdx, newStartIdx, oldEndIdx, newEndIdx, oldKeyToIdx, parentElm,
                 nextElm, ucPc, createdAt, removedElms, destroyedAt, moves, ucArgs>>

PatchStartStart ==
  /\ InLoop
  /\ BothDefined
  /\ sameVnode(oldStartVnode, newStartVnode)
  /\ newCh' = patchVnode(newCh, newStartIdx, oldStartVnode)
  /\ patched' = patched \cup {<<oldStartIdx, newStartIdx>>}
  /\ oldStartIdx' = oldStartIdx + 1
  /\ newStartIdx' = newStartIdx + 1
  /\ UNCHANGED <<oldCh, oldEndIdx, newEndIdx, oldKeyToIdx, parentElm,
                 nextElm, ucPc, createdAt, removedElms, destroyedAt, moves, ucArgs>>

\* line 457-460
PatchEndEnd ==
  /\ InLoop
  /\ BothDefined
  /\ ~sameVnode(oldStartVnode, newStartVnode)
  /\ sameVnode(oldEndVnode, newEndVnode)
  /\ newCh' = patchVnode(newCh, newEndIdx, oldEndVnode)
  /\ patched' = patched \cup {<<oldEndIdx, newEndIdx>>}
  /\ oldEndIdx' = oldEndIdx - 1
  /\ newEndIdx' = newEndIdx - 1
  /\ UNCHANGED <<oldCh, oldStartIdx, newStartIdx, oldKeyToIdx, parentElm,
                 nextElm, ucPc, createdAt, removedElms, destroyedAt, moves, ucArgs>>

\* line 461-465: vnode moved right
PatchStartEnd ==
  /\ InLoop
  /\ BothDefined
  /\ ~sameVnode(oldStartVnode, newStartVnode)
  /\ ~sameVnode(oldEndVnode, newEndVnode)
  /\ sameVnode(oldStartVnode, newEndVnode)
  /\ newCh' = patchVnode(newCh, newEndIdx, oldStartVnode)
  /\ patched' = patched \cup {<<oldStartIdx, newEndIdx>>}
  /\ LET ref == nextSibling(parentElm, oldEndVnode.elm)
     IN IF ~canMove
        THEN UNCHANGED <<parentElm, moves, ucPc>>
        ELSE IF insertBeforeRaises(parentElm, oldStartVnode.elm, ref)
        THEN ucPc' = "raised" /\ UNCHANGED <<parentElm, moves>>
        ELSE /\ parentElm' = insertBefore(parentElm, oldStartVnode.elm, ref)
             /\ moves' = Append(moves, oldStartVnode.elm)
             /\ UNCHANGED ucPc
  /\ oldStartIdx' = oldStartIdx + 1
  /\ newEndIdx' = newEndIdx - 1
  /\ UNCHANGED <<oldCh, oldEndIdx, newStartIdx, oldKeyToIdx, removeOnly,
                 nextElm, createdAt, removedElms, destroyedAt, ucArgs>>

\* line 466-470: vnode moved left
PatchEndStart ==
  /\ InLoop
  /\ BothDefined
  /\ ~sameVnode(oldStartVnode, newStartVnode)
  /\ ~sameVnode(oldEndVnode, newEndVnode)
  /\ ~sameVnode(oldStartVnode, newEndVnode)
  /\ sameVnode(oldEndVnode, newStartVnode)
  /\ newCh' = patchVnode(newCh, newStartIdx, oldEndVnode)
  /\ patched' = patched \cup {<<oldEndIdx, newStartIdx>>}
  /\ IF ~canMove
     THEN UNCHANGED <<parentElm, moves, ucPc>>
     ELSE IF insertBeforeRaises(parentElm, oldEndVnode.elm, oldStartVnode.elm)
     THEN ucPc' = "raised" /\ UNCHANGED <<parentElm, moves>>
     ELSE /\ parentElm' = insertBefore(parentElm, oldEndVnode.elm, oldStartVnode.elm)
          /\ moves' = Append(moves, oldEndVnode.elm)
          /\ UNCHANGED ucPc
  /\ oldEndIdx' = oldEndIdx - 1
  /\ newStartIdx' = newStartIdx + 1
  /\ UNCHANGED <<oldCh, oldStartIdx, newEndIdx, oldKeyToIdx, removeOnly,
                 nextElm, createdAt, removedElms, destroyedAt, ucArgs>>

\* line 471-492: look the new start vnode up among the remaining old ones.
\* sameVnode(vnodeToMove, newStartVnode) reads vnodeToMove.key and raises a
\* TypeError when the slot oldKeyToIdx points at was emptied by an earlier move.
LookupInOld ==
  /\ InLoop
  /\ BothDefined
  /\ ~sameVnode(oldStartVnode, newStartVnode)
  /\ ~sameVnode(oldEndVnode, newEndVnode)
  /\ ~sameVnode(oldStartVnode, newEndVnode)
  /\ ~sameVnode(oldEndVnode, newStartVnode)
  /\ LET map == IF oldKeyToIdx.built THEN oldKeyToIdx.map
                ELSE createKeyToOldIdx(oldCh, oldStartIdx, oldEndIdx)
         idxInOld == IF newStartVnode.key # NoKey
                     THEN map[newStartVnode.key]
                     ELSE findIdxInOld(newStartVnode, oldCh, oldStartIdx, oldEndIdx)
         made == createElm(parentElm, newCh, nextElm, newStartIdx, oldStartVnode.elm)
         vnodeToMove == oldCh[idxInOld]
     IN /\ oldKeyToIdx' = [built |-> TRUE, map |-> map]
        /\ IF idxInOld = NoIdx \/ (isDef(vnodeToMove) /\ ~sameVnode(vnodeToMove, newStartVnode))
           THEN \* new element, or same key but different element
                /\ parentElm' = made.dom
                /\ newCh' = made.ch
                /\ nextElm' = made.next
                /\ createdAt' = createdAt \o made.created
                /\ newStartIdx' = newStartIdx + 1
                /\ UNCHANGED <<oldCh, patched, moves, ucPc>>
           ELSE IF isUndef(vnodeToMove)
           THEN /\ ucPc' = "raised"
                /\ UNCHANGED <<oldCh, newCh, parentElm, nextElm, createdAt, patched,
                               moves, newStartIdx>>
           ELSE /\ newCh' = patchVnode(newCh, newStartIdx, vnodeToMove)
                /\ patched' = patched \cup {<<idxInOld, newStartIdx>>}
                /\ oldCh' = [oldCh EXCEPT ![idxInOld] = Undefined]
                /\ IF ~canMove
                   THEN UNCHANGED <<parentElm, moves, ucPc>>
                   ELSE IF insertBeforeRaises(parentElm, vnodeToMove.elm, oldStartVnode.elm)
                   THEN ucPc' = "raised" /\ UNCHANGED <<parentElm, moves>>
                   ELSE /\ parentElm' = insertBefore(parentElm, vnodeToMove.elm, oldStartVnode.elm)
                        /\ moves' = Append(moves, vnodeToMove.elm)
                        /\ UNCHANGED ucPc
                /\ newStartIdx' = newStartIdx + 1
                /\ UNCHANGED <<nextElm, createdAt>>
  /\ UNCHANGED <<oldStartIdx, oldEndIdx, newEndIdx, removedElms,
                 destroyedAt, ucArgs>>

\* line 494-499: after the loop, add what is left of the new list or remove
\* what is left of the old one.
AfterLoop ==
  /\ ucPc = "loop"
  /\ ~(oldStartIdx <= oldEndIdx /\ newStartIdx <= newEndIdx)
  /\ IF oldStartIdx > oldEndIdx
     THEN LET refElm == IF newEndIdx + 1 > Len(newCh) THEN NoElm
                        ELSE newCh[newEndIdx + 1].elm
              added == addVnodes(parentElm, newCh, nextElm, newStartIdx, newEndIdx, refElm)
          IN /\ parentElm' = added.dom
             /\ newCh' = added.ch
             /\ nextElm' = added.next
             /\ createdAt' = createdAt \o added.created
             /\ UNCHANGED <<removedElms, destroyedAt>>
     ELSE IF newStartIdx > newEndIdx
     THEN LET gone == removeVnodes(parentElm, oldCh, oldStartIdx, oldEndIdx)
          IN /\ parentElm' = gone.dom
             /\ removedElms' = removedElms \o gone.removed
             /\ destroyedAt' = destroyedAt \o gone.destroyed
             /\ UNCHANGED <<newCh, nextElm, createdAt>>
     ELSE UNCHANGED <<parentElm, newCh, nextElm, createdAt, removedElms, destroyedAt>>
  /\ ucPc' = "done"
  /\ UNCHANGED <<oldCh, oldStartIdx, oldEndIdx, newStartIdx, newEndIdx, oldKeyToIdx,
                 patched, moves, ucArgs>>

(***************************************************************************)
(* Inputs of updateChildren and its specifications                         *)
(***************************************************************************)
SeqsUpTo(D, n) == UNION {[1..m -> D] : m \in 0..n}

Distinct(s) == \A i, j \in 1..Len(s) : i # j => s[i] # s[j]

KeysOf(ch) == [i \in 1..Len(ch) |-> ch[i].key]

\* The old list has been rendered: child i owns live node i, and the parent
\* holds the live nodes in list order. The new list is fresh from render.
Rendered(ch) == [i \in 1..Len(ch) |-> [ch[i] EXCEPT !.elm = i]]

\* updateChildren's entry (line 427-444), for the given arguments.
UCEntry(old, new, ro) ==
  /\ oldCh = Rendered(old)
  /\ newCh = new
  /\ oldStartIdx = 1
  /\ newStartIdx = 1
  /\ oldEndIdx = Len(old)
  /\ newEndIdx = Len(new)
  /\ oldKeyToIdx = [built |-> FALSE, map |-> [k \in Keys |-> NoIdx]]
  /\ removeOnly = ro
  /\ parentElm = [i \in 1..Len(old) |-> i]
  /\ nextElm = Len(old) + 1
  /\ ucPc = "loop"
  /\ patched = {}
  /\ createdAt = <<>>
  /\ removedElms = <<>>
  /\ destroyedAt = <<>>
  /\ moves = <<>>
  /\ warnings = checkDuplicateKeys(new)
  /\ oldArg = Rendered(old)

\* Keyed siblings: a key lives in data, so a keyed vnode has data.
KeyedVNodes == {VNode(k, t, TRUE) : k \in Keys, t \in Tags}

\* Old lists with pairwise distinct keys, up to the names of the keys and,
\* per key, of the tags: sameVnode only compares a key with a key and the tags
\* of two vnodes of one key, so the old list is [div#1, ..., div#n].
KeyedOld == {[i \in 1..n |-> VNode(i, "div", TRUE)] : n \in 0..MaxLen}

KeyedNew == {new \in SeqsUpTo(KeyedVNodes, MaxLen) : Distinct(KeysOf(new))}

\* Old and new lists whose keys are all defined and pairwise distinct.
InitKeyed ==
  \E old \in KeyedOld, new \in KeyedNew, ro \in BOOLEAN : UCEntry(old, new, ro)

\* Siblings of any kind, in two families: lists of text nodes and elements
\* without a key, and lists of elements that share one key, under one or two
\* tags, mixed with elements without a key.
MaxAnyLen == 3
TextVNode == VNode(NoKey, "", FALSE)
UnkeyedVNodes == {TextVNode, VNode(NoKey, "div", FALSE), VNode(NoKey, "span", FALSE)}
SameKeyVNodes == {VNode(NoKey, "div", FALSE), VNode(1, "div", TRUE), VNode(1, "span", TRUE)}

InitAny ==
  \E D \in {UnkeyedVNodes, SameKeyVNodes} :
    \E old \in SeqsUpTo(D, MaxAnyLen), new \in SeqsUpTo(D, MaxAnyLen) :
      UCEntry(old, new, FALSE)

\* The other subsystems' variables, which updateChildren never touches.

\* Sibling lists of either family.
InitEither == InitKeyed \/ InitAny

UCNext ==
  \/ SkipOldStart /\ UNCHANGED OutsideUC
  \/ SkipOldEnd /\ UNCHANGED OutsideUC
  \/ PatchStartStart /\ UNCHANGED OutsideUC
  \/ PatchEndEnd /\ UNCHANGED OutsideUC
  \/ PatchStartEnd /\ UNCHANGED OutsideUC
  \/ PatchEndStart /\ UNCHANGED OutsideUC
  \/ LookupInOld /\ UNCHANGED OutsideUC
  \/ AfterLoop /\ UNCHANGED OutsideUC


(***************************************************************************)
(* Claims about updateChildren                                             *)
(***************************************************************************)
Count(s, x) == Cardinality({i \in 1..Len(s) : s[i] = x})

\* The old children that are the same node as new child i, and conversely.
MatchesOfNew(i) == {j \in 1..Len(oldArg) : sameVnode(oldArg[j], newCh[i])}
MatchesOfOld(j) == {i \in 1..Len(newCh) : sameVnode(oldArg[j], newCh[i])}

UCDone == ucPc = "done"

IsRotationByOne ==
  LET n == Len(oldArg)
  IN /\ n >= 2
     /\ Len(newCh) = n
     /\ \/ \A i \in 1..n : sameVnode(newCh[i], oldArg[((i + n - 2) % n) + 1])
        \/ \A i \in 1..n : sameVnode(newCh[i], oldArg[(i % n) + 1])

KeepsLiveNodes ==
  \A i \in 1..Len(newCh) : \E j \in 1..Len(oldArg) :
    oldArg[j].key = newCh[i].key /\ newCh[i].elm = oldArg[j].elm

(* C20: patching a keyed list to its rotation by one position moves exactly *)
(* one existing live node, creates no node, removes no node, and every key  *)
(* keeps its live node.                                                     *)
C20_RotationOneMove ==
  (UCDone /\ IsRotationByOne) =>
    /\ Len(moves) = 1
    /\ \E j \in 1..Len(oldArg) : moves[1] = oldArg[j].elm
    /\ createdAt = <<>>
    /\ removedElms = <<>>
    /\ KeepsLiveNodes

(* C20, amended: the one move is made when removeOnly is false, and then    *)
(* the parent's live children are in the new order; with removeOnly true no *)
(* node is moved.  In both cases no node is created or removed and every    *)
(* key keeps its live node.                                                 *)
C20_RotationOneMoveUnlessRemoveOnly ==
  (UCDone /\ IsRotationByOne) =>
    /\ IF removeOnly
       THEN moves = <<>> /\ parentElm = [i \in 1..Len(oldArg) |-> oldArg[i].elm]
       ELSE /\ Len(moves) = 1
            /\ \E j \in 1..Len(oldArg) : moves[1] = oldArg[j].elm
            /\ parentElm = [i \in 1..Len(newCh) |-> newCh[i].elm]
    /\ createdAt = <<>>
    /\ removedElms = <<>>
    /\ KeepsLiveNodes

\* old [a,b,c] -> new [c,a,b] has been diffed with removeOnly false
C20_Witness ==
  /\ UCDone /\ ~removeOnly
  /\ IsRotationByOne
  /\ Len(oldArg) = 3
  /\ newCh[1].key = oldArg[3].key
  /\ moves = <<oldArg[3].elm>>

\* The live nodes the old children were rendered to.
OldElms == {oldArg[j].elm : j \in 1..Len(oldArg)}

C21_OneWarningPerDuplicateKey ==
  \A k \in Keys :
    Count(warnings, k) = IF Count(KeysOf(newCh), k) > 1 THEN 1 ELSE 0


\* What the four indices still enclose.
Remaining == (oldEndIdx - oldStartIdx + 1) + (newEndIdx - newStartIdx + 1)

(* C39: updateChildren terminates on all old and new lists.  Every iteration *)
(* of its loop moves at least one of the four indices inwards, unless the    *)
(* iteration ends the call by raising; the indices never cross by more than  *)
(* one, so the loop runs at most |old| + |new| iterations.                   *)
C39_UpdateChildrenTerminates ==
  /\ [](oldStartIdx <= oldEndIdx + 1 /\ newStartIdx <= newEndIdx + 1 /\ Remaining <= Len(oldCh) + Len(newCh))
  /\ [][InLoop => (Remaining' < Remaining \/ ucPc' = "raised")]_vars

\* full lists that needed the lookup case, and a skip over the slot it
\* emptied, to use up the new list
C39_Witness ==
  /\ UCDone
  /\ Len(oldCh) = 3 /\ Len(newCh) = 3
  /\ \E j \in 1..Len(oldCh) : oldCh[j] = Undefined /\ j < oldStartIdx
  /\ newStartIdx > newEndIdx

\* The remaining old children that are the same node as the new start vnode.
SameInRemainingOld ==
  {j \in oldStartIdx..oldEndIdx : isDef(oldCh[j]) /\ sameVnode(oldCh[j], newStartVnode)}

UnkeyedLookup == LookupInOld /\ newStartVnode.key = NoKey

(* C32: in the lookup case a new child without a key gets a new live node    *)
(* only if no remaining old child from oldStartIdx to oldEndIdx inclusive is *)
(* the same node as it; if there is one, it is patched and reused and no     *)
(* live node is created.                                                     *)
C32_UnkeyedLookupReuses ==
  [][UnkeyedLookup =>
       IF SameInRemainingOld = {}
       THEN createdAt' # createdAt /\ patched' = patched /\ oldCh' = oldCh
       ELSE /\ createdAt' = createdAt
            /\ \E j \in SameInRemainingOld :
                 /\ patched' = patched \cup {<<j, newStartIdx>>}
                 /\ oldCh' = [oldCh EXCEPT ![j] = Undefined]]_vars

\* [div, span, text] against [span, ..., span]: the lookup found the old span
\* in the middle, reused it and emptied its slot.
C32_Witness ==
  /\ oldKeyToIdx.built
  /\ \A i \in 1..Len(newCh) : newCh[i].key = NoKey
  /\ \E j \in 1..Len(oldCh) :
       /\ oldCh[j] = Undefined
       /\ 1 < j /\ j < Len(oldCh)
       /\ \E i \in 1..Len(newCh) : <<j, i>> \in patched
  /\ createdAt # <<>>

\* C3: updateChildren never raises, whatever the lists, also when a list
\* holds two children with one key.
C3_NeverRaises == ucPc # "raised"

(***************************************************************************)
(* parse (compiler/parser/index.js): the AST                               *)
(***************************************************************************)
MaxAstNodes == 3      \* AST nodes one template may create

NoNode == 0

\* createASTElement (line 61-75), with the fields the structural directives
\* set later at their initial (absent) values.
createASTElement(tag, attrs, parent) ==
  [type |-> 1, tag |-> tag, attrsMap |-> attrs, parent |-> parent, children |-> <<>>,
   pre |-> FALSE, if |-> FALSE, elseif |-> FALSE, else |-> FALSE, for |-> FALSE,
   once |-> FALSE, slotScope |-> FALSE, ifConditions |-> <<>>, scopedSlots |-> {},
   text |-> "", isComment |-> FALSE]

\* A text (type 3), expression (type 2) or comment child (line 402-413, 428-432).
createASTText(type, text, isComment) ==
  [type |-> type, tag |-> "", attrsMap |-> {}, parent |-> NoNode, children |-> <<>>,
   pre |-> FALSE, if |-> FALSE, elseif |-> FALSE, else |-> FALSE, for |-> FALSE,
   once |-> FALSE, slotScope |-> FALSE, ifConditions |-> <<>>, scopedSlots |-> {},
   text |-> text, isComment |-> isComment]

\* trimEndingWhitespace (line 190-202); inPre is never set, options.isPreTag
\* being left at its default.
RECURSIVE trimEndingWhitespace(_, _)
trimEndingWhitespace(a, el) ==
  LET ch == a[el].children
  IN IF Len(ch) > 0 /\ a[ch[Len(ch)]].type = 3 /\ a[ch[Len(ch)]].text = " "
     THEN trimEndingWhitespace([a EXCEPT ![el].children = SubSeq(ch, 1, Len(ch) - 1)], el)
     ELSE a

\* processPre (line 445-449)
processPre(a, el) == IF "v-pre" \in a[el].attrsMap THEN [a EXCEPT ![el].pre = TRUE] ELSE a

\* processFor (line 544-562): the expression of the model's v-for parses.
processFor(a, el) == IF "v-for" \in a[el].attrsMap THEN [a EXCEPT ![el].for = TRUE] ELSE a

\* addIfCondition (line 652-657)
addIfCondition(a, el, block) ==
  [a EXCEPT ![el].ifConditions = Append(a[el].ifConditions, block)]

\* processIf (line 591-612)
processIf(a, el) ==
  IF "v-if" \in a[el].attrsMap
  THEN addIfCondition([a EXCEPT ![el].if = TRUE], el, el)
  ELSE [a EXCEPT ![el].else = "v-else" \in a[el].attrsMap,
                 ![el].elseif = "v-else-if" \in a[el].attrsMap]

\* processOnce (line 660-665)
processOnce(a, el) == IF "v-once" \in a[el].attrsMap THEN [a EXCEPT ![el].once = TRUE] ELSE a

\* processSlotContent (line 669-715): scope / slot-scope become el.slotScope.
processSlotContent(a, el) ==
  IF a[el].tag = "template"
  THEN [a EXCEPT ![el].slotScope = ("scope" \in a[el].attrsMap \/ "slot-scope" \in a[el].attrsMap)]
  ELSE IF "slot-scope" \in a[el].attrsMap THEN [a EXCEPT ![el].slotScope = TRUE] ELSE a

\* processElement (line 472-501), as far as the tree is concerned.
processElement(a, el) == processSlotContent(a, el)

\* findPrevElement (line 634-650): pops the trailing non-element children and
\* returns the last element child, NoNode when there is none. The result is
\* [a, prev, warns].
RECURSIVE findPrevElement(_, _)
findPrevElement(a, parent) ==
  LET ch == a[parent].children
  IN IF Len(ch) = 0 THEN [a |-> a, prev |-> NoNode, warns |-> <<>>]
     ELSE IF a[ch[Len(ch)]].type = 1 THEN [a |-> a, prev |-> ch[Len(ch)], warns |-> <<>>]
     ELSE LET r == findPrevElement([a EXCEPT ![parent].children = SubSeq(ch, 1, Len(ch) - 1)], parent)
          IN [r EXCEPT !.warns = (IF a[ch[Len(ch)]].text # " " THEN <<"text between v-if and v-else">> ELSE <<>>) \o r.warns]

processIfConditions_keepsChild(a, el, parent) ==
  LET r == findPrevElement(a, parent)
  IN IF r.prev # NoNode /\ r.a[r.prev].if
     THEN [a |-> [addIfCondition(r.a, r.prev, el) EXCEPT ![parent].children = Append(@, el)], warns |-> r.warns]
     ELSE [a |-> r.a, warns |-> r.warns \o <<"v-else without v-if">>]
\* processIfConditions (line 615-631). The result is [a, warns].
processIfConditions(a, el, parent) ==
  LET r == findPrevElement(a, parent)
  IN IF r.prev # NoNode /\ r.a[r.prev].if
     THEN [a |-> addIfCondition(r.a, r.prev, el), warns |-> r.warns]
     ELSE [a |-> r.a, warns |-> r.warns \o <<"v-else without v-if">>]

\* warnOnce (line 108-113): the warnings it adds.
warnOnce(w, msg) == IF ~w THEN <<msg>> ELSE <<>>

\* checkRootConstraints (line 204-219). The result is [warned, warns].
checkRootConstraints(a, el, w) ==
  LET w1 == a[el].tag \in {"slot", "template"}
      m1 == IF w1 THEN warnOnce(w, "root cannot be <slot> or <template>") ELSE <<>>
      w2 == "v-for" \in a[el].attrsMap
      m2 == IF w2 THEN warnOnce(w \/ w1, "root cannot carry v-for") ELSE <<>>
  IN [warned |-> w \/ w1 \/ w2, warns |-> m1 \o m2]

\* closeElement (line 118-187) for element el with the given stack length,
\* current parent, root, inVPre and warned. The result is
\* [a, warned, warns, raised]: line 177 assigns the undeclared identifier
\* falsefalse, a ReferenceError, when the element carries pre.
closeElement_keepsSlotChildren(a, el, stackLen, parent, rt, vpre, w) ==
  LET a1 == trimEndingWhitespace(a, el)
      a2 == IF ~vpre THEN processElement(a1, el) ELSE a1
      chained == a2[rt].if /\ (a2[el].elseif \/ a2[el].else)
      offRoot == stackLen = 0 /\ el # rt
      chk == IF offRoot /\ chained THEN checkRootConstraints(a2, el, w)
             ELSE IF offRoot THEN [warned |-> TRUE, warns |-> warnOnce(w, "exactly one root element")]
             ELSE [warned |-> w, warns |-> <<>>]
      a3 == IF offRoot /\ chained THEN addIfCondition(a2, rt, el) ELSE a2
      linked == IF parent = NoNode THEN [a |-> a3, warns |-> <<>>]
                ELSE IF a3[el].elseif \/ a3[el].else THEN processIfConditions(a3, el, parent)
                ELSE [a |-> [a3 EXCEPT ![parent].scopedSlots =
                                          IF a3[el].slotScope THEN {el} ELSE @,
                                        ![parent].children = Append(@, el),
                                        ![el].parent = parent],
                      warns |-> <<>>]
      a4 == linked.a
      a5 == trimEndingWhitespace(a4, el)
  IN [a |-> a5, warned |-> chk.warned, warns |-> chk.warns \o linked.warns,
      raised |-> a5[el].pre]
closeElement(a, el, stackLen, parent, rt, vpre, w) ==
  LET a1 == trimEndingWhitespace(a, el)
      a2 == IF ~vpre THEN processElement(a1, el) ELSE a1
      chained == a2[rt].if /\ (a2[el].elseif \/ a2[el].else)
      offRoot == stackLen = 0 /\ el # rt
      chk == IF offRoot /\ chained THEN checkRootConstraints(a2, el, w)
             ELSE IF offRoot THEN [warned |-> TRUE, warns |-> warnOnce(w, "exactly one root element")]
             ELSE [warned |-> w, warns |-> <<>>]
      a3 == IF offRoot /\ chained THEN addIfCondition(a2, rt, el) ELSE a2
      linked == IF parent = NoNode THEN [a |-> a3, warns |-> <<>>]
                ELSE IF a3[el].elseif \/ a3[el].else THEN processIfConditions(a3, el, parent)
                ELSE [a |-> [a3 EXCEPT ![parent].scopedSlots =
                                          IF a3[el].slotScope THEN {el} ELSE @,
                                        ![parent].children = Append(@, el),
                                        ![el].parent = parent],
                      warns |-> <<>>]
      a4 == [linked.a EXCEPT ![el].children =
               SelectSeq(@, LAMBDA c : ~linked.a[c].slotScope)]
      a5 == trimEndingWhitespace(a4, el)
  IN [a |-> a5, warned |-> chk.warned, warns |-> chk.warns \o linked.warns,
      raised |-> a5[el].pre]

(***************************************************************************)
(* parse: the callbacks parseHTML invokes                                  *)
(***************************************************************************)
AttrSets == {{}, {"v-if"}, {"v-else-if"}, {"v-else"}, {"v-for"}, {"v-pre"}, {"slot-scope"}}
Texts == {" ", "a", "{{x}}"}
\* The opening tags fed to start: <<tag, attributes, unary>>.
StartTokens ==
  {<<"div", a, FALSE>> : a \in AttrSets}
    \cup {<<"template", a, FALSE>> : a \in {{}, {"slot-scope"}}}
    \cup {<<"div", a, TRUE>> : a \in {{}, {"v-pre"}, {"v-else"}}}

Parsing == parsePc = "parsing"

\* start (line 231-326)
Start(tag, attrs, unary) ==
  /\ Parsing
  /\ Len(ast) < MaxAstNodes
  /\ LET el == Len(ast) + 1
         a0 == Append(ast, createASTElement(tag, attrs, currentParent))
         a1 == IF ~inVPre THEN processPre(a0, el) ELSE a0
         vpre == inVPre \/ a1[el].pre
         a2 == IF vpre THEN a1 ELSE processOnce(processIf(processFor(a1, el), el), el)
         rt == IF root = NoNode THEN el ELSE root
         chk == IF root = NoNode THEN checkRootConstraints(a2, el, warned)
                ELSE [warned |-> warned, warns |-> <<>>]
         closed == closeElement(a2, el, Len(stack), currentParent, rt, vpre, chk.warned)
     IN /\ root' = rt
        /\ inVPre' = vpre
        /\ IF ~unary
           THEN /\ ast' = a2
                /\ currentParent' = el
                /\ stack' = Append(stack, el)
                /\ warned' = chk.warned
                /\ parseWarnings' = parseWarnings \o chk.warns
                /\ UNCHANGED parsePc
           ELSE /\ ast' = closed.a
                /\ warned' = closed.warned
                /\ parseWarnings' = parseWarnings \o chk.warns \o closed.warns
                /\ parsePc' = IF closed.raised THEN "raised" ELSE parsePc
                /\ UNCHANGED <<currentParent, stack>>

\* end (line 329-340); parseHTML calls it for an open element only.
End ==
  /\ Parsing
  /\ stack # <<>>
  /\ LET el == stack[Len(stack)]
         st == SubSeq(stack, 1, Len(stack) - 1)
         parent == IF st = <<>> THEN NoNode ELSE st[Len(st)]
         closed == closeElement(ast, el, Len(st), parent, root, inVPre, warned)
     IN /\ stack' = st
        /\ currentParent' = parent
        /\ ast' = closed.a
        /\ warned' = closed.warned
        /\ parseWarnings' = parseWarnings \o closed.warns
        /\ parsePc' = IF closed.raised THEN "raised" ELSE parsePc
        /\ UNCHANGED <<root, inVPre>>

\* chars (line 342-423) under the default whitespace options
\* (preserveWhitespace true, no whitespace mode); a template that is text
\* alone is not among the inputs.
Chars(text) ==
  /\ Parsing
  /\ Len(ast) < MaxAstNodes
  /\ IF currentParent = NoNode
     THEN /\ warned' = (warned \/ text # " ")
          /\ parseWarnings' = parseWarnings \o
               (IF text # " " THEN warnOnce(warned, "text outside root element") ELSE <<>>)
          /\ UNCHANGED ast
     ELSE LET children == ast[currentParent].children
              t == IF text # " " THEN text ELSE IF children = <<>> THEN "" ELSE " "
              isExpr == ~inVPre /\ t # " " /\ t = "{{x}}"
              keep == t # " " \/ children = <<>> \/ ast[children[Len(children)]].text # " "
              id == Len(ast) + 1
          IN /\ IF t # "" /\ (isExpr \/ keep)
                THEN ast' = [Append(ast, createASTText(IF isExpr THEN 2 ELSE 3, t, FALSE))
                               EXCEPT ![currentParent].children = Append(@, id)]
                ELSE UNCHANGED ast
             /\ UNCHANGED <<warned, parseWarnings>>
  /\ UNCHANGED <<root, currentParent, stack, inVPre, parsePc>>

\* comment (line 424-439)
Comment ==
  /\ Parsing
  /\ Len(ast) < MaxAstNodes
  /\ currentParent # NoNode
  /\ ast' = [Append(ast, createASTText(3, "c", TRUE))
               EXCEPT ![currentParent].children = Append(@, Len(ast) + 1)]
  /\ UNCHANGED <<root, currentParent, stack, inVPre, warned, parseWarnings, parsePc>>

\* return root (line 441), once parseHTML has closed every open element.
ParseReturn ==
  /\ Parsing
  /\ stack = <<>>
  /\ parsePc' = "returned"
  /\ UNCHANGED <<ast, root, currentParent, stack, inVPre, warned, parseWarnings>>

\* The state of parse on entry (line 99-106).
InitParse ==
  /\ ast = <<>>
  /\ root = NoNode
  /\ currentParent = NoNode
  /\ stack = <<>>
  /\ inVPre = FALSE
  /\ warned = FALSE
  /\ parseWarnings = <<>>
  /\ parsePc = "parsing"


ParseNext ==
  \/ \E t \in StartTokens : Start(t[1], t[2], t[3]) /\ UNCHANGED OutsideParse
  \/ End /\ UNCHANGED OutsideParse
  \/ \E text \in Texts : Chars(text) /\ UNCHANGED OutsideParse
  \/ Comment /\ UNCHANGED OutsideParse
  \/ ParseReturn /\ UNCHANGED OutsideParse

\* C4: parse never raises, whatever the template.
C4_ParseNeverRaises == parsePc # "raised"

(***************************************************************************)
(* Claims about the parsed AST                                             *)
(***************************************************************************)
Returned == parsePc = "returned"

\* n belongs to the parsed tree: it is the root or was given a parent
InTree(n) == n = root \/ ast[n].parent # NoNode

\* the element right before e among the elements of the tree opened under
\* the same parent, NoNode when e is the first one
PrevSibling(e) ==
  LET before == {s \in 1..(e - 1) : ast[s].type = 1 /\ ast[s].parent = ast[e].parent /\ InTree(s)}
  IN IF before = {} THEN NoNode ELSE CHOOSE s \in before : \A t \in before : t <= s

C18_SlotsNotInChildren ==
  \A n \in 1..Len(ast) :
    (ast[n].type = 1 /\ n \notin SeqToSet(stack)) =>
      ast[n].scopedSlots \cap SeqToSet(ast[n].children) = {}

C18_Witness ==
  \E n \in 1..Len(ast) :
    /\ n \notin SeqToSet(stack)
    /\ ast[n].scopedSlots # {}
    /\ ast[n].children # <<>>

\* e was created outside every element.
TopLevel(e) == ast[e].type = 1 /\ ast[e].parent = NoNode

Closed(e) == e \notin SeqToSet(stack)

RootDiagnostics == {"root cannot be <slot> or <template>", "root cannot carry v-for"}

(* C24: the root is the first top-level element; a later top-level element  *)
(* never becomes a child of the root: once closed it is a block of the       *)
(* root's ifConditions when the root has an if and the element has else-if   *)
(* or else, and otherwise it is in no list of the root and the diagnostic    *)
(* about a single root element has been issued; a root that is a slot or     *)
(* template tag or carries v-for has been reported by a diagnostic about     *)
(* the root, and parsing its template does not raise.                        *)
C24_SingleRoot ==
  \A e \in 1..Len(ast) :
    TopLevel(e) =>
         /\ root # NoNode /\ root <= e
         /\ (e = root /\ (ast[e].tag \in {"slot", "template"} \/ "v-for" \in ast[e].attrsMap)) =>
              /\ RootDiagnostics \cap SeqToSet(parseWarnings) # {}
              /\ parsePc # "raised"
         /\ (e # root /\ Closed(e)) =>
              /\ \A p \in 1..Len(ast) : e \notin SeqToSet(ast[p].children)
              /\ IF ast[root].if /\ (ast[e].elseif \/ ast[e].else)
                 THEN e \in SeqToSet(ast[root].ifConditions)
                 ELSE /\ e \notin SeqToSet(ast[root].ifConditions)
                      /\ "exactly one root element" \in SeqToSet(parseWarnings)

(***************************************************************************)
(* The active instance: setActiveInstance and _update                      *)
(***************************************************************************)
MaxVms == 3
NoVm == 0
Vms == 1..MaxVms

\* Instance 1 is a <transition-group>: its beforeMount hook wraps _update
\* with a first, removeOnly patch of the kept children.
isTransitionGroup(vm) == vm = 1

NoExit == [vm |-> NoVm, prev |-> NoVm, after |-> NoVm, raised |-> FALSE]

\* setActiveInstance(vm): the closure it returns remembers prevActiveInstance.
setActiveInstance(vm, active) ==
  [vm |-> vm, prev |-> active,
   pass |-> IF isTransitionGroup(vm) THEN "kept" ELSE "update"]

restoreActiveInstance_toNull(frame) == NoVm

\* The closure returned by setActiveInstance.
restoreActiveInstance(frame) == frame.prev

Top == callStack[Len(callStack)]

\* vm._update(vnode) called from the render watcher (or $mount of a root)
\* while no patch is running.
UpdateEnter(vm) ==
  /\ callStack = <<>>
  /\ callStack' = <<setActiveInstance(vm, activeInstance)>>
  /\ activeInstance' = vm
  /\ instances' = instances \cup {vm}
  /\ UNCHANGED <<vmParent, lastExit>>

\* The running patch reaches a component placeholder: the init hook
\* constructs the child with parent = activeInstance and mounts it, which
\* calls child._update.
InitChild(child) ==
  /\ callStack # <<>>
  /\ child \notin instances
  /\ instances' = instances \cup {child}
  /\ vmParent' = [vmParent EXCEPT ![child] = activeInstance]
  /\ callStack' = Append(callStack, setActiveInstance(child, activeInstance))
  /\ activeInstance' = child
  /\ UNCHANGED lastExit

\* The innermost patch returns; restoreActiveInstance() runs. After the
\* kept pass of a transition-group the original _update is called at once.
PatchReturn ==
  /\ callStack # <<>>
  /\ LET restored == restoreActiveInstance(Top)
         below == SubSeq(callStack, 1, Len(callStack) - 1)
     IN /\ lastExit' = [vm |-> Top.vm, prev |-> Top.prev, after |-> restored,
                        raised |-> FALSE]
        /\ IF Top.pass = "kept"
           THEN /\ callStack' = Append(below, [vm |-> Top.vm, prev |-> restored,
                                                pass |-> "update"])
                /\ activeInstance' = Top.vm
           ELSE /\ callStack' = below
                /\ activeInstance' = restored
  /\ UNCHANGED <<instances, vmParent>>

\* The innermost patch throws. Neither _update nor the transition-group
\* wrapper has a try/finally, so the exception leaves every enclosing
\* _update without running any restoreActiveInstance().
PatchRaise ==
  /\ callStack # <<>>
  /\ lastExit' = [vm |-> Top.vm, prev |-> Top.prev, after |-> activeInstance,
                  raised |-> TRUE]
  /\ callStack' = <<>>
  /\ UNCHANGED <<activeInstance, instances, vmParent>>

InitLc ==
  /\ activeInstance = NoVm
  /\ callStack = <<>>
  /\ instances = {}
  /\ vmParent = [vm \in Vms |-> NoVm]
  /\ lastExit = NoExit

LcNext ==
  \/ \E vm \in Vms : UpdateEnter(vm) /\ UNCHANGED OutsideLc
  \/ \E child \in Vms : InitChild(child) /\ UNCHANGED OutsideLc
  \/ PatchReturn /\ UNCHANGED OutsideLc
  \/ PatchRaise /\ UNCHANGED OutsideLc

\* C5: when the patch inside _update raises, the active instance is still
\* put back to what it was before that _update.
C5_RestoredOnRaise == lastExit.raised => lastExit.after = lastExit.prev

\* C6: while a component's patch runs the active instance is that
\* component, every running _update remembers the component of the _update
\* enclosing it, a child is constructed with the patching component as its
\* parent, and a patch that returns leaves the active instance as it was
\* before the _update (last in, first out).
C6_ActiveInstanceStack ==
  /\ callStack # <<>> => activeInstance = Top.vm
  /\ \A i \in 2..Len(callStack) :
       /\ callStack[i].prev = callStack[i - 1].vm
       /\ vmParent[callStack[i].vm] = callStack[i - 1].vm
  /\ (lastExit.vm # NoVm /\ ~lastExit.raised) => lastExit.after = lastExit.prev

\* A child's _update has returned into its parent's patch, which is still
\* running with a second child being mounted.
C6_Witness ==
  /\ Len(callStack) = 2
  /\ ~lastExit.raised
  /\ lastExit.vm \notin {NoVm, callStack[1].vm, callStack[2].vm}
  /\ lastExit.prev = callStack[1].vm

(***************************************************************************)
(* Mounting: createElm, createComponent, initComponent, invokeInsertHook   *)
(***************************************************************************)
MaxTreeNodes == 5
MaxChildren == 2
\* cbs.create.length: the modules that registered a create hook.
MaxModules == 2
Null == [set |-> FALSE, queue |-> <<>>]

\* A vnode as createElm meets it. parent is vnode.parent (the placeholder a
\* component's rendered root belongs to), up the enclosing vnode in the
\* composed tree; kind "new" until createElm has looked at it.
MVNode(parent, up) ==
  [kind |-> "new", parent |-> parent, up |-> up, hasInsert |-> FALSE,
   data |-> FALSE, hasCreate |-> FALSE]

\* What vnode.data holds of an element: nothing at all, data without hooks,
\* or data.hook with a create hook, an insert hook or both.
HookChoices == {"nodata", "plain", "create", "insert", "both"}

PatchFrames == SelectSeq(mFrames, LAMBDA f : f.op = "patch")
MTop == mFrames[Len(mFrames)]
MPop == SubSeq(mFrames, 1, Len(mFrames) - 1)
TopQueue == mQueues[Len(mQueues)]
\* vnodes still to be met: the children createChildren has not reached.
Owed == LET todo[i \in 0..Len(mFrames)] ==
              IF i = 0 THEN 0 ELSE todo[i - 1] + mFrames[i].todo
        IN todo[Len(mFrames)]

invokeInsertHook_immediate(vnode, queue, initial) ==
  [pending |-> pendingInsert, fired |-> queue]

\* invokeInsertHook (line 605-615)
invokeInsertHook(vnode, queue, initial) ==
  IF initial /\ mNodes[vnode].parent # NoNode
  THEN [pending |-> [pendingInsert EXCEPT ![mNodes[vnode].parent] =
                                    [set |-> TRUE, queue |-> queue]],
        fired |-> <<>>]
  ELSE [pending |-> pendingInsert, fired |-> queue]

HookCall(hook, module, vnode) == [hook |-> hook, module |-> module, vnode |-> vnode]

\* isPatchable (line 307-312): follow the rendered roots down to the first
\* vnode that is not a placeholder; it is patchable when it has a tag.
RECURSIVE isPatchable(_)
isPatchable(vnode) ==
  IF mNodes[vnode].kind = "component"
  THEN isPatchable(CHOOSE r \in 1..Len(mNodes) : mNodes[r].parent = vnode)
  ELSE mNodes[vnode].kind = "element"

invokeCreateHooks_queuesFirst(vnode, queue) ==
  [queue |-> IF mNodes[vnode].hasInsert THEN Append(queue, vnode) ELSE queue,
   calls |-> (IF mNodes[vnode].hasInsert THEN <<HookCall("queue", 0, vnode)>> ELSE <<>>)
             \o [i \in 1..MaxModules |-> HookCall("module", i, vnode)]
             \o (IF mNodes[vnode].hasCreate THEN <<HookCall("create", 0, vnode)>> ELSE <<>>)]

\* invokeCreateHooks (line 325-334): cbs.create in order, then data.hook.create
\* when defined, then the push when data.hook.insert is defined.
invokeCreateHooks(vnode, queue) ==
  [queue |-> IF mNodes[vnode].hasInsert THEN Append(queue, vnode) ELSE queue,
   calls |-> [i \in 1..MaxModules |-> HookCall("module", i, vnode)]
             \o (IF mNodes[vnode].hasCreate THEN <<HookCall("create", 0, vnode)>> ELSE <<>>)
             \o (IF mNodes[vnode].hasInsert THEN <<HookCall("queue", 0, vnode)>> ELSE <<>>)]

\* initComponent (line 239-257): the pending queue of the child is merged,
\* then a patchable placeholder goes through invokeCreateHooks, while one
\* with an empty root only registers its ref and is pushed unconditionally.
initComponent(vnode, queue) ==
  LET merged == IF pendingInsert[vnode].set
                THEN queue \o pendingInsert[vnode].queue ELSE queue
  IN IF isPatchable(vnode)
     THEN invokeCreateHooks(vnode, merged)
     ELSE [queue |-> Append(merged, vnode),
           calls |-> <<HookCall("ref", 0, vnode), HookCall("queue", 0, vnode)>>]

\* createElm on a vnode with a tag (line 133-199): createChildren first.
BeginElement(nkids, hooks) ==
  /\ mFrames # <<>>
  /\ MTop.op = "createElm" /\ mNodes[MTop.vnode].kind = "new"
  /\ Len(mNodes) + Owed + nkids <= MaxTreeNodes
  /\ mNodes' = [mNodes EXCEPT ![MTop.vnode].kind = "element",
                              ![MTop.vnode].data = hooks # "nodata",
                              ![MTop.vnode].hasCreate = hooks \in {"create", "both"},
                              ![MTop.vnode].hasInsert = hooks \in {"insert", "both"}]
  /\ mFrames' = [mFrames EXCEPT ![Len(mFrames)].todo = nkids]
  /\ UNCHANGED <<mQueues, pendingInsert, mCreated, insertLog, hookLog>>

\* createChildren (line 292-303): createElm on the next child.
CreateChild ==
  /\ mFrames # <<>>
  /\ MTop.op = "createElm" /\ mNodes[MTop.vnode].kind = "element"
  /\ MTop.todo > 0
  /\ mNodes' = Append(mNodes, MVNode(NoNode, MTop.vnode))
  /\ mFrames' = Append([mFrames EXCEPT ![Len(mFrames)].todo = @ - 1],
                       [op |-> "createElm", vnode |-> Len(mNodes) + 1,
                        todo |-> 0, initial |-> FALSE])
  /\ UNCHANGED <<mQueues, pendingInsert, mCreated, insertLog, hookLog>>

\* createElm after createChildren (line 190-194): invokeCreateHooks when the
\* vnode has data, then the element is inserted.
ElementDone ==
  /\ mFrames # <<>>
  /\ MTop.op = "createElm" /\ mNodes[MTop.vnode].kind = "element"
  /\ MTop.todo = 0
  /\ LET r == IF mNodes[MTop.vnode].data
              THEN invokeCreateHooks(MTop.vnode, TopQueue)
              ELSE [queue |-> TopQueue, calls |-> <<>>]
     IN /\ mQueues' = [mQueues EXCEPT ![Len(mQueues)] = r.queue]
        /\ hookLog' = hookLog \o r.calls
  /\ mCreated' = mCreated \cup {MTop.vnode}
  /\ mFrames' = MPop
  /\ UNCHANGED <<mNodes, pendingInsert, insertLog>>

\* createElm on a text or comment vnode (line 201-207).
CreateText ==
  /\ mFrames # <<>>
  /\ MTop.op = "createElm" /\ mNodes[MTop.vnode].kind = "new"
  /\ mNodes' = [mNodes EXCEPT ![MTop.vnode].kind = "text"]
  /\ mCreated' = mCreated \cup {MTop.vnode}
  /\ mFrames' = MPop
  /\ UNCHANGED <<mQueues, pendingInsert, insertLog, hookLog>>

\* createComponent (line 216-222): the init hook constructs the child and
\* mounts it; the child's _update calls patch(undefined, its rendered root),
\* which starts a queue of its own and calls createElm.
ComponentInit ==
  /\ mFrames # <<>>
  /\ MTop.op = "createElm" /\ mNodes[MTop.vnode].kind = "new"
  /\ Len(mNodes) + Owed < MaxTreeNodes
  /\ LET rendered == Len(mNodes) + 1
     IN /\ mNodes' = Append([mNodes EXCEPT ![MTop.vnode].kind = "component",
                                           ![MTop.vnode].data = TRUE,
                                           ![MTop.vnode].hasInsert = TRUE],
                            MVNode(MTop.vnode, MTop.vnode))
        /\ mFrames' = mFrames \o
             <<[op |-> "patch", vnode |-> rendered, todo |-> 0, initial |-> TRUE],
               [op |-> "createElm", vnode |-> rendered, todo |-> 0, initial |-> FALSE]>>
        /\ mQueues' = Append(mQueues, <<>>)
  /\ UNCHANGED <<pendingInsert, mCreated, insertLog, hookLog>>

\* patch after createElm (line 866-867): invokeInsertHook, return.
PatchFinish ==
  /\ mFrames # <<>>
  /\ MTop.op = "patch"
  /\ LET r == invokeInsertHook(MTop.vnode, TopQueue, MTop.initial)
     IN /\ pendingInsert' = r.pending
        /\ insertLog' = insertLog \o
             [i \in 1..Len(r.fired) |->
                [vnode |-> r.fired[i], depth |-> Len(PatchFrames)]]
  /\ mQueues' = SubSeq(mQueues, 1, Len(mQueues) - 1)
  /\ mFrames' = MPop
  /\ UNCHANGED <<mNodes, mCreated, hookLog>>

\* createComponent after the init hook (line 227-229): initComponent and
\* insert of the placeholder's elm.
ComponentDone ==
  /\ mFrames # <<>>
  /\ MTop.op = "createElm" /\ mNodes[MTop.vnode].kind = "component"
  /\ LET r == initComponent(MTop.vnode, TopQueue)
     IN /\ mQueues' = [mQueues EXCEPT ![Len(mQueues)] = r.queue]
        /\ hookLog' = hookLog \o r.calls
  /\ pendingInsert' = [pendingInsert EXCEPT ![MTop.vnode] = Null]
  /\ mCreated' = mCreated \cup {MTop.vnode}
  /\ mFrames' = MPop
  /\ UNCHANGED <<mNodes, insertLog>>

\* patch(oldVnode, vnode) called by the root instance's _update: initial is
\* TRUE when it mounts without an element, and its vnode has no parent.
MountEntry(initial) ==
  /\ mNodes = <<MVNode(NoNode, NoNode)>>
  /\ mFrames = <<[op |-> "patch", vnode |-> 1, todo |-> 0, initial |-> initial],
                 [op |-> "createElm", vnode |-> 1, todo |-> 0, initial |-> FALSE]>>
  /\ mQueues = << <<>> >>
  /\ pendingInsert = [n \in 1..(MaxTreeNodes + 1) |-> Null]
  /\ mCreated = {}
  /\ insertLog = <<>>
  /\ hookLog = <<>>

InitMount == \E initial \in BOOLEAN : MountEntry(initial)

MountNext ==
  \/ \E nkids \in 0..MaxChildren, hooks \in HookChoices :
       BeginElement(nkids, hooks) /\ UNCHANGED OutsideMount
  \/ CreateChild /\ UNCHANGED OutsideMount
  \/ ElementDone /\ UNCHANGED OutsideMount
  \/ CreateText /\ UNCHANGED OutsideMount
  \/ ComponentInit /\ UNCHANGED OutsideMount
  \/ PatchFinish /\ UNCHANGED OutsideMount
  \/ ComponentDone /\ UNCHANGED OutsideMount

\* a is a proper ancestor of d in the composed tree (children and rendered
\* roots of components).
IsAncestor(a, d) ==
  LET up[n \in 0..Len(mNodes)] ==
        IF n = 0 THEN FALSE
        ELSE mNodes[n].up = a \/ up[mNodes[n].up]
  IN up[d]

LoggedVnodes == [i \in 1..Len(insertLog) |-> insertLog[i].vnode]
\* Every queue an insert hook can be waiting in.
Flatten(qs) ==
  LET cat[i \in 0..Len(qs)] == IF i = 0 THEN <<>> ELSE cat[i - 1] \o qs[i]
  IN cat[Len(qs)]
Waiting ==
  Flatten(mQueues) \o Flatten([n \in 1..Len(pendingInsert) |-> pendingInsert[n].queue])

\* C7: while nested components are mounted no insert hook fires inside a
\* nested patch call; a nested patch leaves its queue on its placeholder
\* and initComponent merges it into the enclosing queue, so a created vnode
\* with an insert hook waits in exactly one queue; the hooks fire in the
\* outermost patch call only, when every vnode has been created, each one
\* exactly once, and a descendant's hook before those of its ancestors.
C7_InsertHooksDeferred ==
  /\ \A i \in 1..Len(insertLog) : insertLog[i].depth = 1
  /\ insertLog # <<>> => (mFrames = <<>> /\ mCreated = 1..Len(mNodes))
  /\ mFrames # <<>> =>
       \A n \in 1..Len(mNodes) :
         Count(Waiting, n) = IF n \in mCreated /\ mNodes[n].hasInsert THEN 1 ELSE 0
  /\ \A n \in 1..Len(mNodes) :
       pendingInsert[n].set =>
         /\ mNodes[n].kind = "component"
         /\ \E i \in 1..Len(mFrames) : mFrames[i].op = "createElm" /\ mFrames[i].vnode = n
  /\ mFrames = <<>> =>
       \A n \in 1..Len(mNodes) :
         Count(LoggedVnodes, n) = IF mNodes[n].hasInsert THEN 1 ELSE 0
  /\ \A i, j \in 1..Len(insertLog) :
       i < j => ~IsAncestor(insertLog[i].vnode, insertLog[j].vnode)

\* A mount that is over, with a component nested inside another component
\* and an element with an insert hook inside the inner one.
C7_Witness ==
  /\ mFrames = <<>>
  /\ \E a, b, e \in 1..Len(mNodes) :
       /\ mNodes[a].kind = "component" /\ mNodes[b].kind = "component"
       /\ mNodes[e].kind = "element" /\ mNodes[e].hasInsert
       /\ IsAncestor(a, b) /\ IsAncestor(b, e)
       /\ Count(LoggedVnodes, e) = 1

CallsOf(n) == SelectSeq(hookLog, LAMBDA c : c.vnode = n)

\* The create-time calls of vnode n are those of invokeCreateHooks: each
\* module hook once, all of them before the own create hook, the own create
\* hook exactly when it is defined, the push after every hook and only with
\* an insert hook.
HooksThenQueue(n) ==
  LET cs == CallsOf(n)
  IN /\ \A m \in 1..MaxModules :
          Cardinality({k \in 1..Len(cs) : cs[k] = HookCall("module", m, n)}) = 1
     /\ \A k, l \in 1..Len(cs) :
          /\ (cs[k].hook = "module" /\ cs[l].hook = "create") => k < l
          /\ (cs[k].hook \in {"module", "create"} /\ cs[l].hook = "queue") => k < l
     /\ Cardinality({k \in 1..Len(cs) : cs[k].hook = "create"})
          = IF mNodes[n].hasCreate THEN 1 ELSE 0
     /\ Cardinality({k \in 1..Len(cs) : cs[k].hook = "queue"})
          = IF mNodes[n].hasInsert THEN 1 ELSE 0

EmptyRooted(n) == mNodes[n].kind = "component" /\ ~isPatchable(n)

\* C34: for each created node with data, every module create hook runs
\* before the node's own create hook, and the node is added to the insert
\* queue only after both and only if it has an insert hook.
C34_CreateHooksBeforeQueue ==
  \A n \in mCreated : mNodes[n].data => HooksThenQueue(n)

\* C34 as the code has it: the order holds for every created node with data
\* except a component placeholder whose rendered root has no tag, which only
\* registers its ref and is queued without any create hook; a node without
\* data has no create-time call at all.
C34_CreateHooksBeforeQueueUnlessEmptyRoot ==
  \A n \in mCreated :
    IF ~mNodes[n].data THEN CallsOf(n) = <<>>
    ELSE IF EmptyRooted(n)
         THEN CallsOf(n) = <<HookCall("ref", 0, n), HookCall("queue", 0, n)>>
         ELSE HooksThenQueue(n)

\* A finished mount with an element that has both hooks inside a patchable
\* component, next to a component that rendered a text node.
C34_Witness ==
  /\ mFrames = <<>>
  /\ \E e, c, t \in mCreated :
       /\ mNodes[e].kind = "element" /\ mNodes[e].hasCreate /\ mNodes[e].hasInsert
       /\ mNodes[c].kind = "component" /\ isPatchable(c) /\ IsAncestor(c, e)
       /\ Len(CallsOf(c)) = MaxModules + 1
       /\ EmptyRooted(t)

(***************************************************************************)
(* Removal: removeVnodes, removeAndInvokeRemoveHook, createRmCb            *)
(***************************************************************************)
MaxChain == 2
MaxRemoveModules == 2

\* A vnode of the removed subtree. kids: its element children (each with
\* data); hasRemove: data.hook.remove is defined.
RmVNode(hasData, hasRemove, kids) ==
  [hasData |-> hasData, hasRemove |-> hasRemove, kids |-> kids]

\* The state rm works on.
RmState == [listeners |-> rmListeners, attached |-> rmAttached, log |-> rmLog,
            calls |-> rmCalls]

\* removeNode (line 99-105) on the removed vnode's elm.
removeElm(st) ==
  IF st.attached
  THEN [st EXCEPT !.attached = FALSE, !.log = Append(@, <<"detach">>)]
  ELSE st

\* remove() of createRmCb (line 90-94)
rm(st) ==
  LET counted == [st EXCEPT !.listeners = @ - 1, !.calls = @ + 1]
  IN IF counted.listeners = 0 THEN removeElm(counted) ELSE counted

listeners_modulesOnly(nRemove) == nRemove

\* const listeners = cbs.remove.length + 1 (line 399)
listeners(nRemove) == nRemove + 1

\* The vnodes removeAndInvokeRemoveHook visits: the removed vnode and each
\* nested component root for as long as it has data (line 409-411).
RECURSIVE Visited(_, _)
Visited(chain, n) ==
  IF n < Len(chain) /\ chain[n + 1].hasData THEN Visited(chain, n + 1) ELSE n

\* The hook calls of removeAndInvokeRemoveHook in the order they are made:
\* the recursion into the component root comes before the vnode's own
\* module hooks (k = 1..cbs.remove.length) and its own remove hook or
\* direct rm() (k = 0).
RECURSIVE HookCalls(_, _)
HookCalls(n, last) ==
  (IF n < last THEN HookCalls(n + 1, last) ELSE <<>>)
    \o [k \in 1..rmModules |-> <<n, k>>] \o << <<n, 0>> >>

\* Run the hook calls: a hook in later keeps rm for later, any other calls
\* it at once; a vnode without a remove hook gets rm() called directly.
RECURSIVE RunHooks(_, _, _)
RunHooks(calls, later, st) ==
  IF calls = <<>> THEN st
  ELSE RunHooks(Tail(calls), later,
                IF Head(calls) \in later THEN st ELSE rm(st))

\* removeAndInvokeRemoveHook(ch) (line 396-423)
removeAndInvokeRemoveHook(later) ==
  IF rmChain[1].hasData
  THEN LET last == Visited(rmChain, 1)
       IN RunHooks(HookCalls(1, last), later,
                   [RmState EXCEPT !.listeners = last * listeners(rmModules)])
  ELSE removeElm(RmState)

\* invokeDestroyHook (line 368-380); a component's destroy hook destroys the
\* instance, whose $destroy patches its rendered root against null, which
\* is invokeDestroyHook on that root.
RECURSIVE invokeDestroyHook(_, _)
invokeDestroyHook(n, log) ==
  LET own == IF rmChain[n].hasData THEN Append(log, <<"destroy", n>>) ELSE log
      nested == IF n < Len(rmChain) THEN invokeDestroyHook(n + 1, own) ELSE own
  IN nested \o [k \in 1..rmChain[n].kids |-> <<"destroy", Len(rmChain) + k>>]

\* The hooks that may keep rm: module remove hooks and defined remove hooks.
Deferrable ==
  {c \in SeqToSet(HookCalls(1, Visited(rmChain, 1))) :
     c[2] # 0 \/ rmChain[c[1]].hasRemove}

\* removeVnodes on the child (line 382-394)
RemoveVnodes(later) ==
  /\ rmPc = "before"
  /\ later \subseteq Deferrable
  /\ rmTagged \/ later = {}
  /\ LET removed == IF rmTagged THEN removeAndInvokeRemoveHook(later)
                    ELSE removeElm(RmState)
     IN /\ rmListeners' = removed.listeners
        /\ rmCalls' = removed.calls
        /\ rmAttached' = removed.attached
        /\ rmLog' = IF rmTagged THEN invokeDestroyHook(1, removed.log) ELSE removed.log
        /\ rmOutstanding' = IF rmTagged /\ rmChain[1].hasData THEN later ELSE {}
  /\ rmPc' = "removed"
  /\ UNCHANGED <<rmChain, rmTagged, rmModules>>

\* A hook that kept rm calls it (a transition ends).
RmCallback(c) ==
  /\ rmPc = "removed"
  /\ c \in rmOutstanding
  /\ LET st == rm(RmState)
     IN /\ rmListeners' = st.listeners
        /\ rmCalls' = st.calls
        /\ rmAttached' = st.attached
        /\ rmLog' = st.log
  /\ rmOutstanding' = rmOutstanding \ {c}
  /\ UNCHANGED <<rmChain, rmTagged, rmModules, rmPc>>

\* The removed vnode: every vnode above the last of the chain is a component
\* placeholder, which has data and no element children of its own.
RmChains ==
  {c \in UNION {[1..n -> {RmVNode(d, r, k) : d \in BOOLEAN, r \in BOOLEAN, k \in 0..1}]
                  : n \in 1..MaxChain} :
     /\ \A i \in 1..Len(c) : c[i].hasRemove => c[i].hasData
     /\ \A i \in 1..(Len(c) - 1) : c[i].hasData /\ c[i].kids = 0}

RmEntry(chain, tagged, modules) ==
  /\ rmChain = chain
  /\ rmTagged = tagged
  /\ rmModules = modules
  /\ rmListeners = 0
  /\ rmOutstanding = {}
  /\ rmCalls = 0
  /\ rmAttached = TRUE
  /\ rmLog = <<>>
  /\ rmPc = "before"

InitRm ==
  \E chain \in RmChains, tagged \in BOOLEAN, modules \in 0..MaxRemoveModules :
    /\ tagged \/ (Len(chain) = 1 /\ chain[1] = RmVNode(FALSE, FALSE, 0))
    /\ RmEntry(chain, tagged, modules)

RmNext ==
  \/ \E later \in SUBSET Deferrable : RemoveVnodes(later) /\ UNCHANGED OutsideRm
  \/ \E c \in rmOutstanding : RmCallback(c) /\ UNCHANGED OutsideRm

IsDetach(e) == e[1] = "detach"
IsDestroy(e) == e[1] = "destroy"

\* C8: when removeVnodes removes a child that has a tag, every destroy hook
\* of the child and of its subtree (nested component trees included) has run
\* before the child's live node is detached.
C8_DestroyBeforeDetach ==
  (rmPc = "removed" /\ rmTagged) =>
    \A i, j \in 1..Len(rmLog) :
      (IsDetach(rmLog[i]) /\ IsDestroy(rmLog[j])) => j < i

\* The listener count the removal must wait for: one per module remove hook
\* plus one, for the removed vnode and each nested component root with data.
TotalListeners == Visited(rmChain, 1) * (rmModules + 1)

\* C9: a removed vnode with data whose remove listeners each call rm once
\* is detached exactly once, at the rm call that brings the number of calls
\* to the total listener count, and is never detached while a listener has
\* still to call rm.
C9_DetachWhenAllCalled ==
  (rmPc = "removed" /\ rmTagged /\ rmChain[1].hasData) =>
    /\ rmCalls + Cardinality(rmOutstanding) = TotalListeners
    /\ Len(SelectSeq(rmLog, IsDetach)) = IF rmAttached THEN 0 ELSE 1
    /\ rmAttached <=> rmOutstanding # {}
    /\ ~rmAttached => rmCalls = TotalListeners

\* A component placeholder whose root has data was removed, some listener
\* called rm later, and the last of them detached the node.
C9_Witness ==
  /\ rmPc = "removed" /\ rmTagged
  /\ Visited(rmChain, 1) >= 2
  /\ ~rmAttached
  /\ Len(rmLog) > 1 /\ IsDetach(rmLog[Len(rmLog)])

(***************************************************************************)
(* Hydration: hydrate, assertNodeMatch and the fallback in patch           *)
(***************************************************************************)
MaxHydChildren == 2

\* Live nodes. origin tells the server-rendered nodes from those created by
\* the client.
DText(data, origin) ==
  [nodeType |-> 3, tagName |-> "", data |-> data, childNodes |-> <<>>, origin |-> origin]
DComment(origin) ==
  [nodeType |-> 8, tagName |-> "", data |-> "", childNodes |-> <<>>, origin |-> origin]
DElem(tagName, childNodes, origin) ==
  [nodeType |-> 1, tagName |-> tagName, data |-> "", childNodes |-> childNodes,
   origin |-> origin]

\* elm.innerHTML: the serialization of the child nodes.
RECURSIVE InnerHTML(_)
InnerHTML(nodes) ==
  IF nodes = <<>> THEN <<>>
  ELSE LET n == Head(nodes)
       IN (IF n.nodeType = 3 THEN <<n.data>>
           ELSE IF n.nodeType = 8 THEN <<"<!---->">>
           ELSE <<"<" \o n.tagName \o ">">> \o InnerHTML(n.childNodes)
                  \o <<"</" \o n.tagName \o ">">>)
          \o InnerHTML(Tail(nodes))

\* The nodes the browser builds when elm.innerHTML is assigned h.
HTMLNodes(h) ==
  CHOOSE ns \in {<<DText("a", "client")>>, <<DElem("span", <<>>, "client")>>} :
    InnerHTML(ns) = h
InnerHTMLs == {InnerHTML(<<DText("a", "client")>>),
               InnerHTML(<<DElem("span", <<>>, "client")>>)}

\* Vnodes. tag "" is an undefined tag; hasChildren is isDef(children);
\* hasInnerHTML is isDef(data.domProps.innerHTML).
HText(text) ==
  [tag |-> "", isComment |-> FALSE, text |-> text, hasChildren |-> FALSE,
   children |-> <<>>, hasInnerHTML |-> FALSE, innerHTML |-> <<>>]
HComment ==
  [tag |-> "", isComment |-> TRUE, text |-> "", hasChildren |-> FALSE,
   children |-> <<>>, hasInnerHTML |-> FALSE, innerHTML |-> <<>>]
HElem(tag, hasChildren, children) ==
  [tag |-> tag, isComment |-> FALSE, text |-> "", hasChildren |-> hasChildren,
   children |-> children, hasInnerHTML |-> FALSE, innerHTML |-> <<>>]
HElemHTML(tag, h) ==
  [tag |-> tag, isComment |-> FALSE, text |-> "", hasChildren |-> TRUE,
   children |-> <<>>, hasInnerHTML |-> TRUE, innerHTML |-> h]

\* createElm / createChildren with the domProps module: the live tree a
\* vnode is rendered to by the client.
RECURSIVE Render(_)
Render(vnode) ==
  IF vnode.tag # ""
  THEN DElem(vnode.tag,
             IF vnode.hasInnerHTML THEN HTMLNodes(vnode.innerHTML)
             ELSE [i \in 1..Len(vnode.children) |-> Render(vnode.children[i])],
             "client")
  ELSE IF vnode.isComment THEN DComment("client")
  ELSE DText(vnode.text, "client")

assertNodeMatch_always(node, vnode) == TRUE
assertNodeMatch_never(node, vnode) == FALSE

\* assertNodeMatch (line 740-749), no component or unknown element
assertNodeMatch(node, vnode) ==
  IF vnode.tag # ""
  THEN vnode.tag = node.tagName
  ELSE node.nodeType = (IF vnode.isComment THEN 8 ELSE 3)

HydOk(elm) == [ok |-> TRUE, raised |-> FALSE, elm |-> elm]
HydFail(elm) == [ok |-> FALSE, raised |-> FALSE, elm |-> elm]
HydRaise(elm) == [ok |-> FALSE, raised |-> TRUE, elm |-> elm]

\* hydrate (line 630-738). The result carries the live node as hydrate left
\* it; raised: createChildren appended to a node that is not an element.
RECURSIVE hydrate(_, _, _)
RECURSIVE hydrateChildren(_, _, _, _)
hydrate(elm, vnode, production) ==
  IF ~production /\ ~assertNodeMatch(elm, vnode) THEN HydFail(elm)
  ELSE IF vnode.tag # ""
  THEN IF ~vnode.hasChildren THEN HydOk(elm)
       ELSE IF elm.childNodes = <<>>
       THEN IF vnode.children = <<>> THEN HydOk(elm)
            ELSE IF elm.nodeType # 1 THEN HydRaise(elm)
            ELSE HydOk([elm EXCEPT !.childNodes =
                          [i \in 1..Len(vnode.children) |-> Render(vnode.children[i])]])
       ELSE IF vnode.hasInnerHTML
       THEN IF vnode.innerHTML # InnerHTML(elm.childNodes) THEN HydFail(elm)
            ELSE HydOk(elm)
       ELSE hydrateChildren(elm, vnode.children, 1, production)
  ELSE HydOk(IF elm.data # vnode.text THEN [elm EXCEPT !.data = vnode.text] ELSE elm)

\* The loop over children (line 690-712), from child i on.
hydrateChildren(elm, children, i, production) ==
  IF i > Len(children)
  THEN IF Len(elm.childNodes) > Len(children) THEN HydFail(elm) ELSE HydOk(elm)
  ELSE IF i > Len(elm.childNodes) THEN HydFail(elm)
  ELSE LET r == hydrate(elm.childNodes[i], children[i], production)
           e == [elm EXCEPT !.childNodes[i] = r.elm]
       IN IF r.raised THEN HydRaise(e)
          ELSE IF ~r.ok THEN HydFail(e)
          ELSE hydrateChildren(e, children, i + 1, production)

\* patch(oldVnode, vnode, hydrating = true) on a real element (line 775-863)
HydratePatch ==
  /\ hResult = "pending"
  /\ LET r == hydrate(hDom, hVnode, hProduction)
     IN IF r.raised
        THEN /\ hResult' = "raised"
             /\ hParent' = <<r.elm>>
             /\ UNCHANGED hWarned
        ELSE IF r.ok
        THEN /\ hResult' = "hydrated"
             /\ hParent' = <<r.elm>>
             /\ UNCHANGED hWarned
        ELSE /\ hResult' = "recreated"
             /\ hWarned' = ~hProduction
             /\ hParent' = SelectSeq(<<r.elm, Render(hVnode)>>,
                                     LAMBDA n : n.origin = "client")
  /\ UNCHANGED <<hDom, hVnode, hProduction>>

\* The inputs: a server-rendered element and the client's vnode for it.
DomLeaves == {DText("a", "server"), DText("b", "server"), DComment("server"),
              DElem("span", <<>>, "server"),
              DElem("span", <<DText("a", "server")>>, "server")}
HydLeaves == {HText("a"), HComment, HElem("span", TRUE, <<>>),
              HElem("span", TRUE, <<HText("a")>>), HElem("span", FALSE, <<>>),
              HElem("div", TRUE, <<>>)}
DomRoots == {DElem("div", c, "server") : c \in SeqsUpTo(DomLeaves, MaxHydChildren)}
HydRoots ==
  {HElem(t, TRUE, c) : t \in {"div", "span"}, c \in SeqsUpTo(HydLeaves, MaxHydChildren)}
    \cup {HElemHTML(t, h) : t \in {"div", "span"}, h \in InnerHTMLs}

HydEntry(dom, vnode, production) ==
  /\ hDom = dom
  /\ hVnode = vnode
  /\ hProduction = production
  /\ hParent = <<dom>>
  /\ hResult = "pending"
  /\ hWarned = FALSE

InitHyd ==
  \E dom \in DomRoots, vnode \in HydRoots, production \in BOOLEAN :
    HydEntry(dom, vnode, production)

HydNext == HydratePatch /\ UNCHANGED OutsideHyd

Min(a, b) == IF a < b THEN a ELSE b

\* The live node and the vnode differ in tag or node type.
KindDiffers(e, v) ==
  IF v.tag # ""
  THEN e.nodeType # 1 \/ e.tagName # v.tag
  ELSE e.nodeType # (IF v.isComment THEN 8 ELSE 3)

\* The live subtree differs from the vnode tree, position by position, in
\* some node's tag or node type, in an element's number of children, or in
\* raw inner content.
RECURSIVE TreeDiffers(_, _)
TreeDiffers(e, v) ==
  \/ KindDiffers(e, v)
  \/ /\ v.tag # ""
     /\ IF v.hasInnerHTML THEN v.innerHTML # InnerHTML(e.childNodes)
        ELSE Len(e.childNodes) # Len(v.children)
  \/ \E i \in 1..Min(Len(e.childNodes), Len(v.children)) :
       TreeDiffers(e.childNodes[i], v.children[i])

RECURSIVE AnyKindDiffers(_, _)
AnyKindDiffers(e, v) ==
  \/ KindDiffers(e, v)
  \/ \E i \in 1..Min(Len(e.childNodes), Len(v.children)) :
       AnyKindDiffers(e.childNodes[i], v.children[i])

\* The differences hydrate compares: tag or node type in a non-production
\* build only; for an element that has live child nodes and whose vnode has
\* children defined, the number of children or the raw inner content.
RECURSIVE ComparedDiffers(_, _, _)
ComparedDiffers(e, v, production) ==
  \/ ~production /\ KindDiffers(e, v)
  \/ /\ v.tag # "" /\ v.hasChildren /\ e.childNodes # <<>>
     /\ IF v.hasInnerHTML THEN v.innerHTML # InnerHTML(e.childNodes)
        ELSE \/ Len(e.childNodes) # Len(v.children)
             \/ \E i \in 1..Min(Len(e.childNodes), Len(v.children)) :
                  ComparedDiffers(e.childNodes[i], v.children[i], production)

RECURSIVE TreeMatches(_, _)
TreeMatches(e, v) ==
  /\ ~KindDiffers(e, v)
  /\ v.tag = "" => e.data = v.text
  /\ v.tag # "" =>
       /\ ~v.hasInnerHTML
       /\ Len(e.childNodes) = Len(v.children)
       /\ \A i \in 1..Len(v.children) : TreeMatches(e.childNodes[i], v.children[i])

MaxRenders == 3

\* A vnode by who made it and in which call; NoVnode is null / undefined.
RVNode(by, gen) == [by |-> by, gen |-> gen]
NoVnode == RVNode("none", 0)

\* What the render function does, and what renderError does when called.
RenderOutcomes == {"vnode", "single", "many", "other", "raise"}
ErrorOutcomes == {"vnode", "other", "raise"}

\* The catch block of _render forgetting the previous tree.
_render_noPrevious(prev, gen, out, errOut, hasRenderError, production) ==
  LET caught == out = "raise"
      useHook == caught /\ ~production /\ hasRenderError
      vnode == IF out \in {"vnode", "single"} THEN RVNode("render", gen)
               ELSE IF useHook /\ errOut = "vnode" THEN RVNode("renderError", gen)
               ELSE NoVnode
  IN [vnode |-> IF vnode = NoVnode THEN RVNode("empty", gen) ELSE vnode,
      reported |-> (IF caught THEN <<"render">> ELSE <<>>)
                     \o (IF useHook /\ errOut = "raise" THEN <<"renderError">> ELSE <<>>),
      warned |-> ~production /\ out = "many",
      propagated |-> FALSE]

\* Vue.prototype._render (line 71-130): the vnode it returns, the errors it
\* hands to handleError, the multiple-root warning, and whether the error
\* leaves _render. gen names the vnodes made during this call.
_render(prev, gen, out, errOut, hasRenderError, production) ==
  LET caught == out = "raise"
      useHook == caught /\ ~production /\ hasRenderError
      \* the value of the local vnode after try / catch / finally
      vnode == IF out \in {"vnode", "single"} THEN RVNode("render", gen)
               ELSE IF ~caught THEN NoVnode
               ELSE IF useHook /\ errOut = "vnode" THEN RVNode("renderError", gen)
               ELSE IF useHook /\ errOut = "other" THEN NoVnode
               ELSE prev
  IN [vnode |-> IF vnode = NoVnode THEN RVNode("empty", gen) ELSE vnode,
      reported |-> (IF caught THEN <<"render">> ELSE <<>>)
                     \o (IF useHook /\ errOut = "raise" THEN <<"renderError">> ELSE <<>>),
      warned |-> ~production /\ out = "many",
      propagated |-> FALSE]

NoRender == [out |-> "none", errOut |-> "none", prev |-> NoVnode, vnode |-> NoVnode,
             reported |-> <<>>, warned |-> FALSE, propagated |-> FALSE]

\* updateComponent: vm._update(vm._render()); _update stores the tree in
\* vm._vnode (lifecycle.js line 66).
RenderCall(out, errOut) ==
  /\ rCount < MaxRenders
  /\ LET r == _render(rVnode, rCount + 1, out, errOut, rHasRenderError, rProduction)
     IN /\ rLast' = [out |-> out, errOut |-> errOut, prev |-> rVnode,
                     vnode |-> r.vnode, reported |-> r.reported,
                     warned |-> r.warned, propagated |-> r.propagated]
        /\ rVnode' = r.vnode
  /\ rCount' = rCount + 1
  /\ UNCHANGED <<rHasRenderError, rProduction>>

RenderEntry(hasRenderError, production) ==
  /\ rHasRenderError = hasRenderError
  /\ rProduction = production
  /\ rVnode = NoVnode
  /\ rCount = 0
  /\ rLast = NoRender

InitRender == \E h \in BOOLEAN, p \in BOOLEAN : RenderEntry(h, p)

RenderNext ==
  \E out \in RenderOutcomes, errOut \in ErrorOutcomes :
    RenderCall(out, errOut) /\ UNCHANGED OutsideRender

\* What _render falls back to without an error-render result: the previous
\* tree, or a fresh empty placeholder when there is none.
PreviousOrEmpty == IF rLast.prev # NoVnode THEN rLast.prev ELSE RVNode("empty", rCount)

\* What a raising render must return when the error-render hook is used.
HookOrFallback ==
  IF rLast.errOut = "vnode" THEN RVNode("renderError", rCount)
  ELSE IF rLast.errOut = "other" THEN RVNode("empty", rCount)
  ELSE PreviousOrEmpty

\* C12 as stated: when the render function raises, _render does not let the
\* error out and returns the error-render hook's result if the component
\* supplies the hook (the previous tree if the hook raises), otherwise the
\* previous tree, otherwise an empty placeholder.
C12_RenderErrorFallback ==
  rLast.out = "raise" =>
    /\ ~rLast.propagated
    /\ rLast.vnode = IF rHasRenderError THEN HookOrFallback ELSE PreviousOrEmpty

\* C12 amended: the error-render hook is consulted in a non-production
\* build only; in a production build, or without the hook, a raising render
\* returns the previous tree, or an empty placeholder when there is none.
\* The error is handed to handleError and never leaves _render.
C12_RenderErrorFallbackByBuild ==
  rLast.out = "raise" =>
    /\ ~rLast.propagated
    /\ rLast.reported # <<>> /\ rLast.reported[1] = "render"
    /\ rLast.vnode = IF rHasRenderError /\ ~rProduction THEN HookOrFallback
                     ELSE PreviousOrEmpty

\* The render function raised, the error-render hook raised too, and the
\* previous tree was returned.
C12_Witness ==
  /\ rLast.out = "raise" /\ rLast.errOut = "raise"
  /\ rHasRenderError /\ ~rProduction
  /\ rLast.prev # NoVnode
  /\ rLast.vnode = rLast.prev
  /\ rLast.reported = <<"render", "renderError">>

(***************************************************************************)
(* Static optimizer: optimize, markStatic, markStaticRoots, isStatic        *)
(* (src/compiler/optimizer.js).  An AST is a sequence of nodes; a node's    *)
(* "keys" is the set of its own property names, which isStatic inspects     *)
(* through Object.keys(node).every(isStaticKey).  A flag whose key is not   *)
(* in "keys" is undefined and reads as FALSE.                               *)
(***************************************************************************)
MaxOptNodes == 3
MaxOptRuns == 2

ElementKeys == {"type", "tag", "attrsList", "attrsMap", "rawAttrsMap", "parent", "children"}

NodeKinds == {"div", "bound", "for", "if", "else", "pre", "once", "comp", "inline", "precomp", "tpl", "tplfor", "slot", "text", "expr"}

KindTag(kind) ==
  CASE kind \in {"comp", "inline", "precomp"} -> "my-comp"
    [] kind \in {"tpl", "tplfor"} -> "template"
    [] kind = "slot" -> "slot"
    [] kind \in {"text", "expr"} -> ""
    [] OTHER -> "div"

KindKeys(kind) ==
  CASE kind = "text" -> {"type", "text"}
    [] kind = "expr" -> {"type", "expression", "tokens", "text"}
    [] kind = "bound" -> ElementKeys \cup {"plain", "hasBindings", "attrs"}
    [] kind \in {"for", "tplfor"} -> ElementKeys \cup {"plain", "for", "alias"}
    [] kind = "if" -> ElementKeys \cup {"plain", "if", "ifConditions"}
    [] kind = "else" -> ElementKeys \cup {"plain", "else"}
    [] kind \in {"pre", "precomp"} -> ElementKeys \cup {"pre"}
    [] kind = "once" -> ElementKeys \cup {"plain", "once"}
    [] kind = "inline" -> ElementKeys \cup {"plain", "inlineTemplate"}
    [] OTHER -> ElementKeys \cup {"plain"}

ONode(kind, parent) ==
  [type |-> CASE kind = "text" -> 3 [] kind = "expr" -> 2 [] OTHER -> 1,
   tag |-> KindTag(kind),
   keys |-> KindKeys(kind),
   parent |-> parent,
   children |-> <<>>,
   ifConditions |-> <<>>,
   pre |-> kind \in {"pre", "precomp"},
   hasBindings |-> kind = "bound",
   if |-> kind = "if",
   for |-> kind \in {"for", "tplfor"},
   once |-> kind = "once",
   else |-> kind = "else",
   inlineTemplate |-> kind = "inline",
   static |-> FALSE,
   staticRoot |-> FALSE,
   staticInFor |-> FALSE]

isBuiltInTag(tag) == tag \in {"slot", "component"}

isPlatformReservedTag(tag) == tag \in {"div", "template"}

isStaticKey(key) ==
  key \in {"type", "tag", "attrsList", "attrsMap", "plain", "parent", "children", "attrs", "start", "end", "rawAttrsMap", "staticClass", "staticStyle"}

RECURSIVE isDirectChildOfTemplateFor(_, _)
isDirectChildOfTemplateFor(a, n) ==
  IF a[n].parent = 0 THEN FALSE
  ELSE LET p == a[n].parent IN
       IF a[p].tag # "template" THEN FALSE
       ELSE IF a[p].for THEN TRUE
       ELSE isDirectChildOfTemplateFor(a, p)

isStatic_ignoresKeys(a, n) ==
  IF a[n].type = 2 THEN FALSE
  ELSE IF a[n].type = 3 THEN TRUE
  ELSE a[n].pre \/
       ( /\ ~a[n].hasBindings
         /\ ~a[n].if
         /\ ~a[n].for
         /\ ~isBuiltInTag(a[n].tag)
         /\ isPlatformReservedTag(a[n].tag)
         /\ ~isDirectChildOfTemplateFor(a, n) )
isStatic(a, n) ==
  IF a[n].type = 2 THEN FALSE
  ELSE IF a[n].type = 3 THEN TRUE
  ELSE a[n].pre \/
       ( /\ ~a[n].hasBindings
         /\ ~a[n].if
         /\ ~a[n].for
         /\ ~isBuiltInTag(a[n].tag)
         /\ isPlatformReservedTag(a[n].tag)
         /\ ~isDirectChildOfTemplateFor(a, n)
         /\ \A key \in a[n].keys : isStaticKey(key) )

RECURSIVE markStatic(_, _)
RECURSIVE markStaticEach(_, _, _, _)
markStaticEach(a, n, nodes, i) ==
  IF i > Len(nodes) THEN a
  ELSE LET c == nodes[i]
           a1 == markStatic(a, c)
           a2 == IF ~a1[c].static THEN [a1 EXCEPT ![n].static = FALSE] ELSE a1
       IN markStaticEach(a2, n, nodes, i + 1)

\* markStatic that goes into the children of every element.
markStatic_marksSlotContent(a, n) ==
  LET a1 == [a EXCEPT ![n].static = isStatic(a, n), ![n].keys = @ \cup {"static"}]
  IN IF a[n].type # 1 THEN a1
     ELSE markStaticEach(markStaticEach(a1, n, a[n].children, 1), n, a[n].ifConditions, 1)

markStatic(a, n) ==
  LET a1 == [a EXCEPT ![n].static = isStatic(a, n), ![n].keys = @ \cup {"static"}]
  IN IF a[n].type # 1 THEN a1
     ELSE IF ~isPlatformReservedTag(a[n].tag) /\ a[n].tag # "slot" /\ ~a[n].inlineTemplate THEN a1
     ELSE markStaticEach(markStaticEach(a1, n, a[n].children, 1), n, a[n].ifConditions, 1)

qualifiesAsStaticRoot_anyChildren(a, n) ==
  a[n].static /\ a[n].children # <<>>
qualifiesAsStaticRoot(a, n) ==
  /\ a[n].static
  /\ a[n].children # <<>>
  /\ ~(Len(a[n].children) = 1 /\ a[a[n].children[1]].type = 3)

RECURSIVE markStaticRoots(_, _, _)
RECURSIVE markStaticRootsEach(_, _, _, _)
markStaticRootsEach(a, nodes, i, isInFor) ==
  IF i > Len(nodes) THEN a
  ELSE markStaticRootsEach(markStaticRoots(a, nodes[i], isInFor), nodes, i + 1, isInFor)

\* markStaticRoots that goes on into the children of a static root.
markStaticRoots_visitsBelowRoot(a, n, isInFor) ==
  IF a[n].type # 1 THEN a
  ELSE LET a1 == IF a[n].static \/ a[n].once
                 THEN [a EXCEPT ![n].staticInFor = isInFor, ![n].keys = @ \cup {"staticInFor"}]
                 ELSE a
           a2 == [a1 EXCEPT ![n].staticRoot = qualifiesAsStaticRoot(a1, n), ![n].keys = @ \cup {"staticRoot"}]
           a3 == markStaticRootsEach(a2, a[n].children, 1, isInFor \/ a[n].for)
       IN markStaticRootsEach(a3, a[n].ifConditions, 1, isInFor)

markStaticRoots(a, n, isInFor) ==
  IF a[n].type # 1 THEN a
  ELSE LET a1 == IF a[n].static \/ a[n].once
                 THEN [a EXCEPT ![n].staticInFor = isInFor, ![n].keys = @ \cup {"staticInFor"}]
                 ELSE a
       IN IF qualifiesAsStaticRoot(a1, n)
          THEN [a1 EXCEPT ![n].staticRoot = TRUE, ![n].keys = @ \cup {"staticRoot"}]
          ELSE LET a2 == [a1 EXCEPT ![n].staticRoot = FALSE, ![n].keys = @ \cup {"staticRoot"}]
                   a3 == markStaticRootsEach(a2, a[n].children, 1, isInFor \/ a[n].for)
               IN markStaticRootsEach(a3, a[n].ifConditions, 1, isInFor)

optimize(rootAst) ==
  IF rootAst = <<>> THEN rootAst
  ELSE markStaticRoots(markStatic(rootAst, 1), 1, FALSE)

\* optimize(ast) is called on the AST
Optimize ==
  /\ oRuns < MaxOptRuns
  /\ oAst' = optimize(oAst)
  /\ oRuns' = oRuns + 1
  /\ oFirst' = IF oRuns = 0 THEN optimize(oAst) ELSE oFirst
  /\ UNCHANGED OutsideOpt

(* The ASTs the parser builds: node 1 is the root element; node i > 1 hangs   *)
(* below an earlier element, as a child or, for a v-else element, as a       *)
(* condition block of the v-if element it follows.                           *)
AddNode(a, kind, o) ==
  LET i == Len(a) + 1
  IN IF kind = "else"
     THEN [Append(a, ONode("else", a[o].parent)) EXCEPT ![o].ifConditions = Append(@, i)]
     ELSE [Append(a, ONode(kind, o)) EXCEPT ![o].children = Append(@, i)]

CanOwn(a, o, kind) ==
  /\ a[o].type = 1
  /\ kind = "else" => a[o].if

\* parse creates one more node and closeElement/chars attaches it to its owner
AttachUpTo(maxNodes, kind, o) ==
  /\ oRuns = 0
  /\ Len(oAst) < maxNodes
  /\ o \in 1..Len(oAst)
  /\ CanOwn(oAst, o, kind)
  /\ oAst' = AddNode(oAst, kind, o)
  /\ UNCHANGED <<oRuns, oFirst>>
  /\ UNCHANGED OutsideOpt

OptEntry(tree) ==
  /\ oAst = tree
  /\ oRuns = 0
  /\ oFirst = <<>>

Attach(kind, o) == AttachUpTo(MaxOptNodes, kind, o)

InitOpt == \E kind \in NodeKinds \ {"text", "expr", "else"} : OptEntry(<<ONode(kind, 0)>>)

OptNext ==
  \/ \E kind \in NodeKinds, o \in 1..MaxOptNodes : Attach(kind, o)
  \/ Optimize

(* Deeper ASTs of plain, bound and conditional elements and text, for the    *)
(* second pass: a static element below a static element needs four nodes.   *)
MaxRootNodes == 4

RootKinds == {"div", "bound", "if", "else", "text"}

AttachDeep(kind, o) == AttachUpTo(MaxRootNodes, kind, o)

InitRoots == \E kind \in {"div", "bound"} : OptEntry(<<ONode(kind, 0)>>)

RootsNext ==
  \/ \E kind \in RootKinds, o \in 1..MaxRootNodes : AttachDeep(kind, o)
  \/ Optimize


SingleTextChild(a, n) == Len(a[n].children) = 1 /\ a[a[n].children[1]].type = 3

(* C13: running optimize a second time on the same AST leaves every node    *)
(* with the static and staticRoot flags the first run gave it.              *)
C13_OptimizeIdempotent ==
  oRuns = 2 =>
    \A n \in 1..Len(oAst) :
      /\ oAst[n].static = oFirst[n].static
      /\ oAst[n].staticRoot = oFirst[n].staticRoot

(* C14: after optimize every node with staticRoot = TRUE is static, has at  *)
(* least one child and is not an element whose only child is one text node; *)
(* so a static element with a single plain-text child has staticRoot FALSE. *)
C14_StaticRootShape ==
  oRuns >= 1 =>
    \A n \in 1..Len(oAst) :
      /\ oAst[n].staticRoot =>
           /\ oAst[n].static
           /\ oAst[n].children # <<>>
           /\ ~SingleTextChild(oAst, n)
      /\ (oAst[n].type = 1 /\ oAst[n].static /\ SingleTextChild(oAst, n)) => ~oAst[n].staticRoot

C14_Witness ==
  /\ oRuns = 1
  /\ \E n \in 1..Len(oAst) :
       /\ oAst[n].staticRoot
       /\ Len(oAst[n].children) = 2
       /\ oAst[oAst[n].children[1]].type = 3


\* The elements n lies below.
RECURSIVE Ancestors(_, _)
Ancestors(a, n) ==
  IF a[n].parent = 0 THEN {} ELSE {a[n].parent} \cup Ancestors(a, a[n].parent)

HasAncestor(a, n, pred(_)) == \E p \in Ancestors(a, n) : pred(a[p])

\* An element that is a component: no reserved tag and no <slot>.
IsComponent(node) == node.type = 1 /\ ~isPlatformReservedTag(node.tag) /\ node.tag # "slot"

SlotContentOwner(node) == IsComponent(node) /\ ~node.inlineTemplate
InlineTemplateOwner(node) == IsComponent(node) /\ node.inlineTemplate

Optimized == oRuns = 1

ElseBlocks(a, n) == SeqToSet(a[n].ifConditions)

(* C27: after optimize an element with static = TRUE has only children with  *)
(* static = TRUE, and the block of every else-if / else condition attached   *)
(* to it has static = TRUE.                                                  *)
C27_StaticNeedsStaticChildren ==
  Optimized =>
    \A n \in 1..Len(oAst) :
      (oAst[n].type = 1 /\ oAst[n].static) =>
        /\ \A c \in SeqToSet(oAst[n].children) : oAst[c].static
        /\ \A b \in ElseBlocks(oAst, n) : oAst[b].static

\* markStaticRoots reached n: it wrote the node's staticRoot flag.
VisitedByRootPass(a, n) == "staticRoot" \in a[n].keys

IsStaticRoot(node) == node.staticRoot

StaticParent(a, n) ==
  /\ a[n].type = 1
  /\ a[n].static
  /\ Len(a[n].children) >= 2
  /\ \A c \in SeqToSet(a[n].children) : a[c].static

(* C29: the second pass visits the children and conditional branches of     *)
(* every node, a static root's too, so after optimize every element was     *)
(* visited and every static element with two or more static children has    *)
(* staticRoot = TRUE, also below a static root.                             *)
C29_RootPassVisitsEveryNode ==
  Optimized =>
    \A n \in 1..Len(oAst) :
      /\ oAst[n].type = 1 => VisitedByRootPass(oAst, n)
      /\ StaticParent(oAst, n) => oAst[n].staticRoot

(* C29 as the code has it: the second pass stops at a static root.  After    *)
(* optimize an element was visited exactly when no ancestor of it is a      *)
(* static root, and a static element with two or more static children has   *)
(* staticRoot = TRUE exactly when no ancestor of it is a static root.       *)
C29_RootPassStopsAtStaticRoot ==
  Optimized =>
    \A n \in 1..Len(oAst) :
      /\ oAst[n].type = 1 =>
           (VisitedByRootPass(oAst, n) <=> ~HasAncestor(oAst, n, IsStaticRoot))
      /\ StaticParent(oAst, n) =>
           (oAst[n].staticRoot <=> ~HasAncestor(oAst, n, IsStaticRoot))

\* <div><div><div/>text</div></div>: the outer element is the static root,
\* the inner one has two static children and no staticRoot flag.
C29_Witness ==
  /\ Optimized
  /\ Len(oAst) = 4
  /\ oAst[1].staticRoot
  /\ oAst[1].children = <<2>>
  /\ StaticParent(oAst, 2)
  /\ ~oAst[2].staticRoot
  /\ ~VisitedByRootPass(oAst, 2)

(***************************************************************************)
(* Code generator: generate, genElement, genStatic, genOnce, genIf,         *)
(* genIfConditions, genFor, genData, genScopedSlots, genScopedSlot,         *)
(* genChildren, genSlot (src/compiler/codegen/index.js).  Generated code is *)
(* kept as a term, not as text: Code(op, exp, idx, args) stands for the     *)
(* text the source concatenates, args being the nested pieces of code.  The *)
(* expressions of node n (its v-for source, its v-if or v-else-if test, its *)
(* tag) are written with idx = n, so distinct nodes have distinct texts.    *)
(***************************************************************************)
MaxGenNodes == 3

emptySlotScopeToken == "_empty_"

Code(op, exp, idx, args) == [op |-> op, exp |-> exp, idx |-> idx, args |-> args, node |-> 0]

\* The call _m(index) as node n emitted it; "node" is not part of the text.
StaticCall(inFor, index, n) == [Code("_m", inFor, index, <<>>) EXCEPT !.node = n]

NoCode == Code("", "", 0, <<>>)

GNode(tag, parent) ==
  [type |-> 1,
   tag |-> tag,
   parent |-> parent,
   children |-> <<>>,
   plain |-> TRUE,
   pre |-> FALSE,
   key |-> "",
   component |-> FALSE,
   inlineTemplate |-> FALSE,
   if |-> FALSE,
   elseif |-> FALSE,
   else |-> FALSE,
   ifConditions |-> <<>>,
   for |-> FALSE,
   once |-> FALSE,
   static |-> FALSE,
   staticRoot |-> FALSE,
   staticInFor |-> FALSE,
   slotScope |-> "",
   slotTarget |-> "",
   slotTargetDynamic |-> FALSE,
   legacy |-> FALSE,
   scopedSlots |-> <<>>,
   staticProcessed |-> FALSE,
   onceProcessed |-> FALSE,
   forProcessed |-> FALSE,
   ifProcessed |-> FALSE]

CodegenState == [onceId |-> 0, staticRenderFns |-> <<>>, pre |-> FALSE, warned |-> <<>>]

maybeComponent(el) == el.component \/ ~isPlatformReservedTag(el.tag)

\* what a gen function hands back: its code, the AST and the state as it left them
GenResult(code, a, st) == [code |-> code, a |-> a, st |-> st]

RECURSIVE containsSlotChild(_, _)
containsSlotChild(a, n) ==
  IF a[n].type = 1
  THEN IF a[n].tag = "slot" THEN TRUE
       ELSE \E i \in 1..Len(a[n].children) : containsSlotChild(a, a[n].children[i])
  ELSE FALSE

RECURSIVE ancestorForcesUpdate(_, _)
ancestorForcesUpdate(a, parent) ==
  IF parent = 0 THEN FALSE
  ELSE IF (a[parent].slotScope # "" /\ a[parent].slotScope # emptySlotScopeToken) \/ a[parent].for THEN TRUE
  ELSE ancestorForcesUpdate(a, a[parent].parent)

RECURSIVE ancestorNeedsKey(_, _)
ancestorNeedsKey(a, parent) ==
  IF parent = 0 THEN FALSE
  ELSE IF (a[parent].slotScope # "" /\ a[parent].slotScope # emptySlotScopeToken) \/ a[parent].for THEN FALSE
  ELSE a[parent].if \/ ancestorNeedsKey(a, a[parent].parent)

slotForcesUpdate_ignoresFor(slot) ==
  slot.slotTargetDynamic \/ slot.if
slotForcesUpdate(slot) ==
  slot.slotTargetDynamic \/ slot.if \/ slot.for

needsNormalization(el) == el.for \/ el.tag = "template" \/ el.tag = "slot"

RECURSIVE getNormalizationType(_, _, _, _)
getNormalizationType(a, children, i, res) ==
  IF i > Len(children) THEN res
  ELSE LET el == a[children[i]] IN
       IF el.type # 1 THEN getNormalizationType(a, children, i + 1, res)
       ELSE IF needsNormalization(el) \/ \E c \in 1..Len(el.ifConditions) : needsNormalization(a[el.ifConditions[c].block])
       THEN 2
       ELSE IF maybeComponent(el) \/ \E c \in 1..Len(el.ifConditions) : maybeComponent(a[el.ifConditions[c].block])
       THEN getNormalizationType(a, children, i + 1, 1)
       ELSE getNormalizationType(a, children, i + 1, res)

NormalizationText(t) == CASE t = 0 -> "" [] t = 1 -> ",1" [] OTHER -> ",2"

RECURSIVE genElement(_, _, _)
RECURSIVE genStatic(_, _, _)
RECURSIVE genOnce(_, _, _)
RECURSIVE genIf(_, _, _, _)
RECURSIVE genIfConditions(_, _, _, _)
RECURSIVE genTernaryExp(_, _, _, _)
RECURSIVE genFor(_, _, _, _)
RECURSIVE genData(_, _, _)
RECURSIVE genScopedSlots(_, _, _)
RECURSIVE genScopedSlotEach(_, _, _, _, _)
RECURSIVE genScopedSlot(_, _, _)
RECURSIVE genChildren(_, _, _, _)
RECURSIVE genNodeEach(_, _, _, _, _)
RECURSIVE genSlot(_, _, _)
RECURSIVE onceKey(_, _)

\* The(S) is the element of the one-element set S.  A call's result that is
\* read more than once is named by ranging over {call}, which evaluates the
\* call a single time.
The(S) == CHOOSE x \in S : TRUE

\* genElement that tests v-if before v-for.
genElement_ifBeforeFor(a, st, n) ==
  LET a0 == IF a[n].parent # 0 THEN [a EXCEPT ![n].pre = @ \/ a[a[n].parent].pre] ELSE a
      el == a0[n]
  IN IF el.staticRoot /\ ~el.staticProcessed THEN genStatic(a0, st, n)
     ELSE IF el.once /\ ~el.onceProcessed THEN genOnce(a0, st, n)
     ELSE IF el.if /\ ~el.ifProcessed THEN genIf(a0, st, n, FALSE)
     ELSE IF el.for /\ ~el.forProcessed THEN genFor(a0, st, n, FALSE)
     ELSE IF el.tag = "template" /\ el.slotTarget = "" /\ ~st.pre
     THEN The({GenResult(IF r.code = NoCode THEN Code("void 0", "", n, <<>>) ELSE r.code, r.a, r.st) :
                 r \in {genChildren(a0, st, n, FALSE)}})
     ELSE IF el.tag = "slot" THEN genSlot(a0, st, n)
     ELSE LET needsData == el.component \/ ~el.plain \/ (el.pre /\ maybeComponent(el))
          IN The({The({GenResult(Code("_c", el.tag, n, <<d.code, c.code>>), c.a, c.st) :
                         c \in {IF el.inlineTemplate THEN GenResult(NoCode, d.a, d.st)
                                ELSE genChildren(d.a, d.st, n, TRUE)}}) :
                    d \in {IF needsData THEN genData(a0, st, n) ELSE GenResult(NoCode, a0, st)}})

genElement(a, st, n) ==
  LET a0 == IF a[n].parent # 0 THEN [a EXCEPT ![n].pre = @ \/ a[a[n].parent].pre] ELSE a
      el == a0[n]
  IN IF el.staticRoot /\ ~el.staticProcessed THEN genStatic(a0, st, n)
     ELSE IF el.once /\ ~el.onceProcessed THEN genOnce(a0, st, n)
     ELSE IF el.for /\ ~el.forProcessed THEN genFor(a0, st, n, FALSE)
     ELSE IF el.if /\ ~el.ifProcessed THEN genIf(a0, st, n, FALSE)
     ELSE IF el.tag = "template" /\ el.slotTarget = "" /\ ~st.pre
     THEN The({GenResult(IF r.code = NoCode THEN Code("void 0", "", n, <<>>) ELSE r.code, r.a, r.st) :
                 r \in {genChildren(a0, st, n, FALSE)}})
     ELSE IF el.tag = "slot" THEN genSlot(a0, st, n)
     ELSE LET needsData == el.component \/ ~el.plain \/ (el.pre /\ maybeComponent(el))
          IN The({The({GenResult(Code("_c", el.tag, n, <<d.code, c.code>>), c.a, c.st) :
                         c \in {IF el.inlineTemplate THEN GenResult(NoCode, d.a, d.st)
                                ELSE genChildren(d.a, d.st, n, TRUE)}}) :
                    d \in {IF needsData THEN genData(a0, st, n) ELSE GenResult(NoCode, a0, st)}})

\* genStatic that takes the index of its function before generating it.
genStatic_indexAtEntry(a, st, n) ==
  LET a1 == [a EXCEPT ![n].staticProcessed = TRUE]
      originalPreState == st.pre
      st1 == IF a1[n].pre THEN [st EXCEPT !.pre = TRUE] ELSE st
  IN The({GenResult(StaticCall(IF r.a[n].staticInFor THEN ",true" ELSE "", Len(st.staticRenderFns), n),
                    r.a,
                    [r.st EXCEPT !.staticRenderFns = Append(@, r.code), !.pre = originalPreState]) :
            r \in {genElement(a1, st1, n)}})

genStatic(a, st, n) ==
  LET a1 == [a EXCEPT ![n].staticProcessed = TRUE]
      originalPreState == st.pre
      st1 == IF a1[n].pre THEN [st EXCEPT !.pre = TRUE] ELSE st
  IN The({GenResult(StaticCall(IF r.a[n].staticInFor THEN ",true" ELSE "", Len(r.st.staticRenderFns), n),
                    r.a,
                    [r.st EXCEPT !.staticRenderFns = Append(@, r.code), !.pre = originalPreState]) :
            r \in {genElement(a1, st1, n)}})

onceKey(a, parent) ==
  IF parent = 0 THEN ""
  ELSE IF a[parent].for THEN a[parent].key
  ELSE onceKey(a, a[parent].parent)

genOnce(a, st, n) ==
  LET a1 == [a EXCEPT ![n].onceProcessed = TRUE]
  IN IF a1[n].if /\ ~a1[n].ifProcessed THEN genIf(a1, st, n, FALSE)
     ELSE IF a1[n].staticInFor
     THEN LET key == onceKey(a1, a1[n].parent)
          IN IF key = ""
             THEN genElement(a1, [st EXCEPT !.warned = Append(@, "v-once can only be used inside v-for that is keyed")], n)
             ELSE The({GenResult(Code("_o", key, r.st.onceId, <<r.code>>), r.a, [r.st EXCEPT !.onceId = @ + 1]) :
                         r \in {genElement(a1, st, n)}})
     ELSE genStatic(a1, st, n)

genIf(a, st, n, inSlot) ==
  genIfConditions([a EXCEPT ![n].ifProcessed = TRUE], st, a[n].ifConditions, inSlot)

genIfConditions(a, st, conditions, inSlot) ==
  IF conditions = <<>>
  THEN GenResult(IF inSlot THEN Code("null", "", 0, <<>>) ELSE Code("_e", "", 0, <<>>), a, st)
  ELSE LET condition == Head(conditions)
       IN IF condition.exp # ""
          THEN The({The({GenResult(Code("?:", condition.exp, condition.block, <<t.code, f.code>>), f.a, f.st) :
                           f \in {genIfConditions(t.a, t.st, Tail(conditions), inSlot)}}) :
                      t \in {genTernaryExp(a, st, condition.block, inSlot)}})
          ELSE genTernaryExp(a, st, condition.block, inSlot)

genTernaryExp(a, st, n, inSlot) ==
  IF inSlot THEN genScopedSlot(a, st, n)
  ELSE IF a[n].once THEN genOnce(a, st, n)
  ELSE genElement(a, st, n)

genFor(a, st, n, inSlot) ==
  LET el == a[n]
      st1 == IF maybeComponent(el) /\ el.tag # "slot" /\ el.tag # "template" /\ el.key = ""
             THEN [st EXCEPT !.warned = Append(@, "component lists rendered with v-for should have explicit keys")]
             ELSE st
      a1 == [a EXCEPT ![n].forProcessed = TRUE]
  IN The({GenResult(Code("_l", "for", n, <<r.code>>), r.a, r.st) :
            r \in {IF inSlot THEN genScopedSlot(a1, st1, n) ELSE genElement(a1, st1, n)}})

genData(a, st, n) ==
  The({GenResult(Code("{}", IF a[n].pre THEN "pre:true," ELSE "", n, <<s.code>>), s.a, s.st) :
         s \in {IF a[n].scopedSlots # <<>> THEN genScopedSlots(a, st, n) ELSE GenResult(NoCode, a, st)}})

genScopedSlotEach(a, st, slots, i, codes) ==
  IF i > Len(slots) THEN GenResult(codes, a, st)
  ELSE The({genScopedSlotEach(r.a, r.st, slots, i + 1, Append(codes, r.code)) :
              r \in {genScopedSlot(a, st, slots[i])}})

genScopedSlots(a, st, n) ==
  LET el == a[n]
      slots == el.scopedSlots
      bySlots == el.for \/ \E i \in 1..Len(slots) : slotForcesUpdate(a[slots[i]]) \/ containsSlotChild(a, slots[i])
      needsForceUpdate == bySlots \/ ancestorForcesUpdate(a, el.parent)
      needsKey == el.if \/ (~bySlots /\ ancestorNeedsKey(a, el.parent))
  IN The({GenResult(Code("_u", IF needsForceUpdate THEN ",null,true" ELSE IF needsKey THEN ",null,false,hash" ELSE "", n, generatedSlots.code),
                    generatedSlots.a, generatedSlots.st) :
            generatedSlots \in {genScopedSlotEach(a, st, slots, 1, <<>>)}})

genScopedSlot(a, st, n) ==
  LET el == a[n]
      isLegacySyntax == el.legacy
  IN IF el.if /\ ~el.ifProcessed /\ ~isLegacySyntax THEN genIf(a, st, n, TRUE)
     ELSE IF el.for /\ ~el.forProcessed THEN genFor(a, st, n, TRUE)
     ELSE LET slotScope == IF el.slotScope = emptySlotScopeToken THEN "" ELSE IF el.slotScope = "" THEN "undefined" ELSE el.slotScope
              orUndefined(c) == IF c = NoCode THEN Code("undefined", "", 0, <<>>) ELSE c
              body(r) == IF el.tag = "template"
                         THEN IF el.if /\ isLegacySyntax
                              THEN Code("?:", "if", n, <<orUndefined(r.code), Code("undefined", "", 0, <<>>)>>)
                              ELSE orUndefined(r.code)
                         ELSE r.code
          IN The({GenResult(Code("fn", slotScope, n, <<body(r)>>), r.a, r.st) :
                    r \in {IF el.tag = "template" THEN genChildren(a, st, n, FALSE) ELSE genElement(a, st, n)}})

genNodeEach(a, st, children, i, codes) ==
  IF i > Len(children) THEN GenResult(codes, a, st)
  ELSE The({genNodeEach(r.a, r.st, children, i + 1, Append(codes, r.code)) :
              r \in {IF a[children[i]].type = 1 THEN genElement(a, st, children[i])
                     ELSE GenResult(Code("_v", "", children[i], <<>>), a, st)}})

genChildren(a, st, n, checkSkip) ==
  LET children == a[n].children
  IN IF children = <<>> THEN GenResult(NoCode, a, st)
     ELSE LET el == a[children[1]]
          IN IF Len(children) = 1 /\ el.type = 1 /\ el.for /\ el.tag # "template" /\ el.tag # "slot"
             THEN The({GenResult(Code("only", IF checkSkip THEN (IF maybeComponent(el) THEN ",1" ELSE ",0") ELSE "", n, <<r.code>>), r.a, r.st) :
                         r \in {genElement(a, st, children[1])}})
             ELSE LET normalizationType == IF checkSkip THEN getNormalizationType(a, children, 1, 0) ELSE 0
                  IN The({GenResult(Code("[]", NormalizationText(normalizationType), n, r.code), r.a, r.st) :
                            r \in {genNodeEach(a, st, children, 1, <<>>)}})

genSlot(a, st, n) ==
  The({GenResult(Code("_t", "default", n, IF r.code = NoCode THEN <<>> ELSE <<r.code>>), r.a, r.st) :
         r \in {genChildren(a, st, n, FALSE)}})

generate(a) ==
  IF a = <<>> THEN GenResult(Code("_c", "div", 0, <<>>), a, CodegenState)
  ELSE genElement(a, CodegenState, 1)

\* The node optimize sees for the element el: its own property names decide
\* isStatic, and its ifConditions are the v-else-if / v-else blocks.
OptNodeOf(el) ==
  [type |-> 1,
   tag |-> el.tag,
   keys |-> ElementKeys
              \cup (IF el.plain THEN {"plain"} ELSE {})
              \cup (IF el.key # "" THEN {"key"} ELSE {})
              \cup (IF el.if THEN {"if", "ifConditions"} ELSE {})
              \cup (IF el.elseif THEN {"elseif"} ELSE {})
              \cup (IF el.else THEN {"else"} ELSE {})
              \cup (IF el.for THEN {"for", "alias"} ELSE {})
              \cup (IF el.once THEN {"once"} ELSE {})
              \cup (IF el.slotScope # "" THEN {"slotScope"} ELSE {})
              \cup (IF el.slotTarget # "" THEN {"slotTarget"} ELSE {})
              \cup (IF el.scopedSlots # <<>> THEN {"scopedSlots"} ELSE {}),
   parent |-> el.parent,
   children |-> el.children,
   ifConditions |-> IF el.ifConditions = <<>> THEN <<>>
                    ELSE [i \in 1..Len(Tail(el.ifConditions)) |-> Tail(el.ifConditions)[i].block],
   pre |-> el.pre,
   hasBindings |-> FALSE,
   if |-> el.if,
   for |-> el.for,
   once |-> el.once,
   else |-> el.else,
   inlineTemplate |-> el.inlineTemplate,
   static |-> FALSE,
   staticRoot |-> FALSE,
   staticInFor |-> FALSE]

\* optimize(ast, options) writes static, staticRoot and staticInFor onto the AST
optimizeAst(a) ==
  LET o == optimize([i \in 1..Len(a) |-> OptNodeOf(a[i])])
  IN [i \in 1..Len(a) |->
        [a[i] EXCEPT !.static = o[i].static, !.staticRoot = o[i].staticRoot, !.staticInFor = o[i].staticInFor]]

\* baseCompile after parse: optimize unless options.optimize is false, then generate
baseCompile(a, doOptimize) == generate(IF doOptimize THEN optimizeAst(a) ELSE a)

(* The ASTs handed to generate, built the way parse builds them: a new node   *)
(* hangs below an element that is still open (the last node or one of its     *)
(* ancestors); closeElement puts it into the parent's children, or into the   *)
(* parent's scopedSlots when it has a slot scope, or, for a v-else-if/v-else  *)
(* element, into the ifConditions of the element before it.  "prev" is the    *)
(* element findPrevElement returns for the next sibling.                      *)
GenKind(tag, hasIf, hasFor, scope, legacy, dyn) ==
  [tag |-> tag, if |-> hasIf, for |-> hasFor, scope |-> scope, legacy |-> legacy, dyn |-> dyn]

OrdinaryKinds ==
  {GenKind("div", FALSE, FALSE, "", FALSE, FALSE),
   GenKind("div", TRUE, FALSE, "", FALSE, FALSE),
   GenKind("div", FALSE, TRUE, "", FALSE, FALSE),
   GenKind("div", TRUE, TRUE, "", FALSE, FALSE),
   GenKind("my-comp", FALSE, FALSE, "", FALSE, FALSE),
   GenKind("my-comp", FALSE, TRUE, "", FALSE, FALSE),
   GenKind("slot", FALSE, FALSE, "", FALSE, FALSE)}

ScopedKinds ==
  {GenKind("template", FALSE, FALSE, "p", FALSE, FALSE),
   GenKind("template", TRUE, FALSE, "p", FALSE, FALSE),
   GenKind("template", FALSE, TRUE, "p", FALSE, FALSE),
   GenKind("template", TRUE, TRUE, "p", FALSE, FALSE),
   GenKind("template", FALSE, FALSE, emptySlotScopeToken, FALSE, FALSE),
   GenKind("template", FALSE, FALSE, "p", FALSE, TRUE),
   GenKind("template", TRUE, FALSE, "p", TRUE, FALSE),
   GenKind("template", TRUE, TRUE, "p", TRUE, FALSE),
   GenKind("div", TRUE, TRUE, "p", TRUE, FALSE)}

BlockKinds == {"elseif", "else"}

SlotName(node) == IF node.slotTarget = "" THEN "default" ELSE node.slotTarget

GenNodeOf(k, parent, i) ==
  [GNode(k.tag, parent) EXCEPT
     !.if = k.if,
     !.ifConditions = IF k.if THEN <<[exp |-> "if", block |-> i]>> ELSE <<>>,
     !.for = k.for,
     !.slotScope = k.scope,
     !.legacy = k.legacy,
     !.slotTarget = IF k.scope = "" \/ k.legacy THEN "" ELSE IF k.dyn THEN "[d]" ELSE "x",
     !.slotTargetDynamic = k.dyn]

PutSlot(a, slots, i, node) ==
  IF \E j \in 1..Len(slots) : SlotName(a[slots[j]]) = SlotName(node)
  THEN [j \in 1..Len(slots) |-> IF SlotName(a[slots[j]]) = SlotName(node) THEN i ELSE slots[j]]
  ELSE Append(slots, i)

GenAddNode(a, k, p) ==
  LET i == Len(a) + 1
      node == GenNodeOf(k, p, i)
  IN IF k.scope # ""
     THEN [Append(a, node) EXCEPT ![p].scopedSlots = PutSlot(a, @, i, node), ![p].plain = FALSE]
     ELSE [Append(a, node) EXCEPT ![p].children = Append(@, i)]

GenAddBlock(a, kind, p, o) ==
  LET i == Len(a) + 1
      node == [GNode(a[o].tag, p) EXCEPT
                 !.elseif = (kind = "elseif"),
                 !.else = (kind = "else"),
                 !.slotScope = a[o].slotScope,
                 !.legacy = a[o].legacy,
                 !.slotTarget = a[o].slotTarget]
  IN [Append(a, node) EXCEPT ![o].ifConditions = Append(@, [exp |-> IF kind = "elseif" THEN "elseif" ELSE "", block |-> i])]

RECURSIVE StillOpen(_, _, _)
StillOpen(a, n, p) ==
  IF n = 0 THEN FALSE
  ELSE n = p \/ StillOpen(a, a[n].parent, p)

\* parse closes one more element below the open element p
GenAttach(k, p) ==
  /\ ~gDone
  /\ Len(gAst) < MaxGenNodes
  /\ p \in 1..Len(gAst)
  /\ StillOpen(gAst, Len(gAst), p)
  /\ k.scope # "" => ~isPlatformReservedTag(gAst[p].tag) /\ gAst[p].tag # "slot"
  /\ gAst' = GenAddNode(gAst, k, p)
  /\ gPrev' = [Append(gPrev, 0) EXCEPT ![p] = Len(gAst) + 1]
  /\ UNCHANGED <<gDone, gCode, gFns, gOut, gWarned, gSecond>>
  /\ UNCHANGED OutsideGen

\* parse closes a v-else-if / v-else element: processIfConditions hands it to
\* the element before it (below p), or to the root when the stack is empty (p = 0)
GenAttachBlock(kind, p) ==
  /\ ~gDone
  /\ Len(gAst) < MaxGenNodes
  /\ p \in 0..Len(gAst)
  /\ p # 0 => StillOpen(gAst, Len(gAst), p)
  /\ LET o == IF p = 0 THEN 1 ELSE gPrev[p]
     IN /\ o # 0
        /\ gAst[o].if
        /\ gAst' = GenAddBlock(gAst, kind, p, o)
  /\ gPrev' = Append(gPrev, 0)
  /\ UNCHANGED <<gDone, gCode, gFns, gOut, gWarned, gSecond>>
  /\ UNCHANGED OutsideGen

\* the key expression written on node n
KeyText(n) == <<"k1", "k2", "k3", "k4", "k5">>[n]

\* processElement reads one more structural attribute of the element parse
\* has just built: processOnce (v-once) or processKey (the key of a v-for
\* element)
GenDirective(d) ==
  /\ ~gDone
  /\ LET n == Len(gAst)
     IN /\ d = "once" => ~gAst[n].once
        /\ d = "key" => gAst[n].for /\ gAst[n].key = ""
        /\ gAst' = [gAst EXCEPT ![n].once = @ \/ d = "once",
                                ![n].key = IF d = "key" THEN KeyText(n) ELSE @,
                                ![n].plain = @ /\ d # "key"]
  /\ UNCHANGED <<gPrev, gDone, gCode, gFns, gOut, gWarned, gSecond>>
  /\ UNCHANGED OutsideGen

\* baseCompile hands the AST to optimize and generate
Generate(doOptimize) ==
  /\ ~gDone
  /\ LET r == baseCompile(gAst, doOptimize)
     IN /\ gCode' = r.code
        /\ gFns' = r.st.staticRenderFns
        /\ gWarned' = r.st.warned
        /\ gOut' = r.a
  /\ gDone' = TRUE
  /\ UNCHANGED <<gAst, gPrev, gSecond>>
  /\ UNCHANGED OutsideGen

\* generate(ast, options) is called once more on the AST the first call left
GenerateAgain ==
  /\ gDone
  /\ gSecond = <<>>
  /\ LET r == generate(gOut)
     IN /\ gSecond' = <<r.code, r.st.staticRenderFns>>
        /\ gOut' = r.a
  /\ UNCHANGED <<gAst, gPrev, gDone, gCode, gFns, gWarned>>
  /\ UNCHANGED OutsideGen

GenEntry(tree) ==
  /\ gAst = tree
  /\ gPrev = [i \in 1..Len(tree) |-> 0]
  /\ gDone = FALSE
  /\ gCode = NoCode
  /\ gFns = <<>>
  /\ gOut = <<>>
  /\ gWarned = <<>>
  /\ gSecond = <<>>

InitGen == \E k \in OrdinaryKinds : GenEntry(<<GenNodeOf(k, 0, 1)>>)

GenNext ==
  \/ \E k \in OrdinaryKinds \cup ScopedKinds, p \in 1..MaxGenNodes : GenAttach(k, p)
  \/ \E kind \in BlockKinds, p \in 0..MaxGenNodes : GenAttachBlock(kind, p)
  \/ \E d \in {"once", "key"} : GenDirective(d)
  \/ \E doOptimize \in BOOLEAN : Generate(doOptimize)
  \/ GenerateAgain

RECURSIVE Subcodes(_)
Subcodes(c) == {c} \cup UNION {Subcodes(c.args[i]) : i \in 1..Len(c.args)}

AllCode == Subcodes(gCode) \cup UNION {Subcodes(gFns[i]) : i \in 1..Len(gFns)}

Generated(n) == \E c \in AllCode : c.idx = n /\ c.op \in {"_c", "_l", "?:", "fn", "_t"}

ChainBlocks(n) == {gAst[n].ifConditions[i].block : i \in 1..Len(gAst[n].ifConditions)}

\* the piece of code the conditional expression c of chain n evaluates when
\* exactly the tests of the nodes in env are true
RECURSIVE Selected(_, _, _)
Selected(c, n, env) ==
  IF c.op = "?:" /\ c.idx \in ChainBlocks(n)
  THEN IF c.idx \in env THEN Selected(c.args[1], n, env) ELSE Selected(c.args[2], n, env)
  ELSE c

\* the block the chain of n must evaluate under env: the first one whose test
\* is true or that has no test (v-else); 0 when there is none
RECURSIVE FirstTaken(_, _, _)
FirstTaken(conditions, i, env) ==
  IF i > Len(conditions) THEN 0
  ELSE IF conditions[i].exp = "" \/ conditions[i].block \in env THEN conditions[i].block
  ELSE FirstTaken(conditions, i + 1, env)

(* C15: the code generated for a chain v-if A / v-else-if B / v-else         *)
(* evaluates, under every assignment of truth values to the tests, exactly   *)
(* the first block whose test is true, else the v-else block; without a      *)
(* v-else the all-false case evaluates to the empty node _e(), never to      *)
(* undefined or a missing branch.                                            *)
C15_IfChainSelectsOneBranch ==
  gDone =>
    \A n \in 1..Len(gAst) :
      (gAst[n].if /\ Generated(n)) =>
        \E c \in AllCode :
          /\ c.op = "?:" /\ c.idx = n /\ c.exp = "if"
          /\ \A env \in SUBSET ChainBlocks(n) :
               LET taken == FirstTaken(gAst[n].ifConditions, 1, env)
                   code == Selected(c, n, env)
               IN IF taken = 0 THEN code.op = "_e" ELSE code.idx = taken

(* C16: a node carrying both v-for and v-if is generated with the loop as    *)
(* the outer construct and the conditional inside each iteration, as an      *)
(* ordinary element and as scoped-slot content alike, and afterwards neither *)
(* its for nor its if is left unprocessed.                                   *)
C16_LoopWrapsConditional ==
  gDone =>
    \A n \in 1..Len(gAst) :
      (gAst[n].for /\ gAst[n].if /\ Generated(n)) =>
        /\ \E l \in AllCode :
             /\ l.op = "_l" /\ l.idx = n
             /\ \E c \in Subcodes(l) : c.op = "?:" /\ c.idx = n /\ c.exp = "if"
        /\ \A c \in AllCode :
             (c.op = "?:" /\ c.idx = n) => \A l \in Subcodes(c) : ~(l.op = "_l" /\ l.idx = n)
        /\ gOut[n].forProcessed
        /\ gOut[n].ifProcessed \/ \E c \in AllCode : c.op = "?:" /\ c.idx = n /\ c.exp = "if"

RECURSIVE LoopOrScopeAbove(_, _)
LoopOrScopeAbove(a, n) ==
  IF n = 0 THEN FALSE
  ELSE \/ a[n].for
       \/ a[n].slotScope \notin {"", emptySlotScopeToken}
       \/ LoopOrScopeAbove(a, a[n].parent)

SlotsOf(n) == {gAst[n].scopedSlots[i] : i \in 1..Len(gAst[n].scopedSlots)}

StableButFor(n) ==
  /\ \A s \in SlotsOf(n) : ~gAst[s].if /\ ~gAst[s].slotTargetDynamic /\ ~containsSlotChild(gAst, s)
  /\ ~LoopOrScopeAbove(gAst, n)

ForceUpdate(n) == \E u \in AllCode : u.op = "_u" /\ u.idx = n /\ u.exp = ",null,true"

(* C19: the force-update flag emitted with a component's scoped slots is     *)
(* false when no slot has a v-if, a v-for, a dynamic target or a nested slot *)
(* outlet and no element above the slots has a loop or a non-empty slot      *)
(* scope; with a v-for added to one of these slots the flag is true.         *)
C19_ForceUpdateFlag ==
  gDone =>
    \A n \in 1..Len(gAst) :
      (gAst[n].scopedSlots # <<>> /\ StableButFor(n) /\ \E u \in AllCode : u.op = "_u" /\ u.idx = n) =>
        ForceUpdate(n) = (\E s \in SlotsOf(n) : gAst[s].for)

C19_Witness ==
  /\ gDone
  /\ \E n \in 1..Len(gAst) :
       /\ gAst[n].scopedSlots # <<>>
       /\ StableButFor(n)
       /\ \A s \in SlotsOf(n) : ~gAst[s].for
       /\ gAst[n].parent # 0
       /\ \E u \in AllCode : u.op = "_u" /\ u.idx = n /\ u.exp # ",null,true"

\* The pieces of code below c, the bodies of the static render functions
\* that c calls through _m included.
RECURSIVE Deep(_)
Deep(c) ==
  Subcodes(c) \cup UNION {Deep(gFns[h.idx + 1]) : h \in {s \in Subcodes(c) : s.op = "_m"}}

Within(inner, outer) == inner # outer /\ inner \in Deep(outer)

\* The code each construct of node n was generated as: "hoist" is the call of
\* a static render function (_m) or a keyed once marker (_o) holding n's code,
\* "for" the loop, "if" the conditional, "core" the element, slot outlet or
\* bare template children.
CodeOf(construct, n) ==
  CASE construct = "hoist" ->
         {c \in AllCode : \/ c.op = "_m" /\ gFns[c.idx + 1].idx = n
                          \/ c.op = "_o" /\ c.args[1].idx = n}
    [] construct = "for" -> {c \in AllCode : c.op = "_l" /\ c.idx = n}
    [] construct = "if" -> {c \in AllCode : c.op = "?:" /\ c.idx = n}
    [] OTHER ->
         {c \in AllCode : /\ c.idx = n
                          /\ c.op \in (IF gOut[n].tag = "template" THEN {"[]", "only", "void 0"}
                                       ELSE IF gOut[n].tag = "slot" THEN {"_t"}
                                       ELSE {"_c"})}

RECURSIVE CountIn(_, _)
RECURSIVE CountInEach(_, _, _)
\* how many times the piece of code x is written in c
CountIn(c, x) == (IF c = x THEN 1 ELSE 0) + CountInEach(c.args, 1, x)
CountInEach(codes, i, x) ==
  IF i > Len(codes) THEN 0 ELSE CountIn(codes[i], x) + CountInEach(codes, i + 1, x)

Emitted(x) == CountIn(gCode, x) + CountInEach(gFns, 1, x)

\* genElement was called on n: n is not scoped-slot content, which
\* genScopedSlot generates, and its code is part of the output.
Dispatched(n) == gOut[n].slotScope = "" /\ CodeOf("core", n) # {}

\* v-once without a hoisting wrapper: inside a v-for that has no key genOnce
\* issues a diagnostic and generates the plain element.
OnceDropped(n) == gOut[n].once /\ gOut[n].staticInFor /\ onceKey(gOut, gOut[n].parent) = ""

Hoisted(n) == (gOut[n].staticRoot \/ gOut[n].once) /\ ~OnceDropped(n)

Pick(present, construct) == IF present THEN <<construct>> ELSE <<>>

\* the constructs of n from the outermost to the innermost, in dispatch order
DispatchOrder(n) ==
  Pick(Hoisted(n), "hoist") \o Pick(gOut[n].for, "for") \o Pick(gOut[n].if, "if") \o <<"core">>

\* the same, with the conditional of a v-once node outside its once wrapper
OnceInsideIfOrder(n) ==
  IF gOut[n].once /\ gOut[n].if
  THEN <<"if">> \o Pick(Hoisted(n), "hoist") \o Pick(gOut[n].for, "for") \o <<"core">>
  ELSE DispatchOrder(n)

ProcessedFlagsSet(n) ==
  /\ gOut[n].staticRoot => gOut[n].staticProcessed
  /\ gOut[n].once => gOut[n].onceProcessed
  /\ gOut[n].for => gOut[n].forProcessed
  /\ gOut[n].if => gOut[n].ifProcessed

\* every construct of the order is written exactly once and holds the next one
GeneratedInOrder(n, order) ==
  /\ \A i \in 1..Len(order) :
       /\ Cardinality(CodeOf(order[i], n)) = 1
       /\ \A c \in CodeOf(order[i], n) : Emitted(c) = 1
  /\ \A i \in 1..(Len(order) - 1) :
       \A outer \in CodeOf(order[i], n), inner \in CodeOf(order[i + 1], n) :
         Within(inner, outer) /\ ~Within(outer, inner)
  /\ OnceDropped(n) => "v-once can only be used inside v-for that is keyed" \in SeqToSet(gWarned)

(* C28: genElement takes the first applicable case in the order static root, *)
(* once, for, if, bare template, slot outlet, element, skipping a case whose *)
(* processed flag is set; every construct of a node is generated exactly     *)
(* once, each inside the one before it in that order, the processed flags    *)
(* are set, and generation ends.                                             *)
C28_ConstructsNestInDispatchOrder ==
  gDone =>
    \A n \in 1..Len(gOut) :
      Dispatched(n) => ProcessedFlagsSet(n) /\ GeneratedInOrder(n, DispatchOrder(n))

(* C28 as the code has it: the same, except that genOnce hands a node that   *)
(* also has an unprocessed v-if to genIf first, so the conditional of a      *)
(* v-once node is the outermost construct and the once wrapper lies inside   *)
(* its branch.                                                               *)
C28_ConstructsNestOnceInsideIf ==
  gDone =>
    \A n \in 1..Len(gOut) :
      Dispatched(n) => ProcessedFlagsSet(n) /\ GeneratedInOrder(n, OnceInsideIfOrder(n))

\* <div v-once v-for v-if>: the conditional, the static render function call
\* and the loop were all generated for one node.
C28_Witness ==
  /\ gDone
  /\ \E n \in 1..Len(gOut) :
       /\ Dispatched(n)
       /\ gOut[n].once /\ gOut[n].for /\ gOut[n].if
       /\ OnceInsideIfOrder(n) = <<"if", "hoist", "for", "core">>
       /\ \E c \in CodeOf("if", n), h \in CodeOf("hoist", n), l \in CodeOf("for", n) :
            h.op = "_m" /\ Within(h, c) /\ Within(l, h)
  /\ \E r \in 1..Len(gOut) : gOut[r].staticRoot /\ gOut[r].staticProcessed

StaticCalls == {c \in AllCode : c.op = "_m"}

(* C40: every index in a call _m(i) that generate emitted names an entry of  *)
(* the staticRenderFns list it returned, and that entry is the code of the   *)
(* node that emitted the call, also when static or once subtrees lie inside  *)
(* one another.                                                              *)
C40_StaticCallsResolve ==
  gDone =>
    \A c \in StaticCalls :
      /\ c.idx + 1 \in 1..Len(gFns)
      /\ gFns[c.idx + 1].idx = c.node
      /\ gFns[c.idx + 1] \in CodeOf("for", c.node) \cup CodeOf("core", c.node)

\* a once subtree inside a once subtree: the outer function calls the inner
C40_Witness ==
  /\ gDone
  /\ \E outer \in Subcodes(gCode) :
       /\ outer.op = "_m" /\ outer.idx = 1
       /\ \E inner \in Subcodes(gFns[2]) :
            inner.op = "_m" /\ inner.idx = 0 /\ inner.node # outer.node

\* The nearest ancestor of n that has a v-for (0: none).
RECURSIVE NearestLoop(_, _)
NearestLoop(a, n) ==
  IF a[n].parent = 0 THEN 0
  ELSE IF a[a[n].parent].for THEN a[n].parent
  ELSE NearestLoop(a, a[n].parent)

OnceMarkers == {c \in AllCode : c.op = "_o"}

OnceMarkersOf(n) == {c \in OnceMarkers : c.args[1].idx = n}

StaticCallsOf(n) == {c \in StaticCalls : c.node = n}

(* C35: a v-once node inside a loop whose nearest looping ancestor has a key *)
(* is generated as _o(code, id, key) with that loop's key and an id no other *)
(* _o of the compilation has; when that loop has no key a diagnostic is      *)
(* issued and the node is generated as a plain element; a v-once node        *)
(* outside any loop is generated through the static-root path, _m(i).        *)
C35_OnceInLoopTagged ==
  gDone =>
    \A n \in 1..Len(gAst) :
      (Dispatched(n) /\ gAst[n].once) =>
        LET loop == NearestLoop(gAst, n)
        IN IF loop = 0
           THEN StaticCallsOf(n) # {} /\ OnceMarkersOf(n) = {}
           ELSE IF gAst[loop].key # ""
           THEN /\ StaticCallsOf(n) = {}
                /\ \E c \in OnceMarkersOf(n) :
                     /\ c.exp = gAst[loop].key
                     /\ \A d \in OnceMarkers : d # c => d.idx # c.idx
           ELSE /\ StaticCallsOf(n) = {} /\ OnceMarkersOf(n) = {}
                /\ "v-once can only be used inside v-for that is keyed" \in SeqToSet(gWarned)

(* C36: a second generate call on the same optimized AST returns the render  *)
(* code and the static render functions the first call returned.             *)
C36_GenerateRepeatable ==
  gSecond # <<>> => gSecond = <<gCode, gFns>>

(***************************************************************************)
(* patch on a whole tree: patch, patchVnode, updateChildren, createElm,     *)
(* createChildren, addVnodes, removeVnodes (core/vdom/patch.js).  A vnode     *)
(* tree is a sequence of vnodes, node 1 being the root; "children" holds the  *)
(* ids of the children, and hasCh tells an array (possibly empty) from an     *)
(* undefined children property.  The live tree is a sequence of live nodes,  *)
(* node 1 being the element the root is mounted in.  No vnode is a component, *)
(* a comment, an async placeholder or a static tree, no vnode carries hooks,  *)
(* and a key is the only thing a vnode's data holds.                         *)
(***************************************************************************)
MaxTNodes == 3       \* most vnodes of the old tree and of the new tree

NoText == "<undefined>"
Container == 1

TVNode(tag, key, text, hasCh, parent) ==
  [tag |-> tag, key |-> key, isComment |-> FALSE, data |-> key # NoKey,
   text |-> text, hasCh |-> hasCh, children |-> <<>>, parent |-> parent,
   elm |-> NoElm]

\* The fields sameVnode, createKeyToOldIdx and findIdxInOld read.
AsSibling(v) ==
  [key |-> v.key, tag |-> v.tag, isComment |-> v.isComment, data |-> v.data, elm |-> v.elm]

\* A children array as those functions see it; id 0 is a slot set to undefined.
Siblings(tree, ch) ==
  [i \in 1..Len(ch) |-> IF ch[i] = 0 THEN Undefined ELSE AsSibling(tree[ch[i]])]

LiveNode(text, isText) == [parent |-> NoElm, kids |-> <<>>, text |-> text, isText |-> isText]

\* One call of a nodeOps function that changes the live tree.
DomOp(op, elm, ref, text) == [op |-> op, elm |-> elm, ref |-> ref, text |-> text]

\* What a patch works on: both vnode trees, the live tree, the log of nodeOps
\* calls, the pairs given to patchVnode and to updateChildren, and whether a
\* TypeError or a DOM exception has ended the patch.
World(old, new, dom) ==
  [old |-> old, new |-> new, dom |-> dom, ops |-> <<>>, patchedPairs |-> <<>>,
   diffed |-> <<>>, raised |-> FALSE]

\* nodeOps.createElement / nodeOps.createTextNode: the new live node is
\* Len(dom) + 1.
tCreateNode(w, text, isText) ==
  [w EXCEPT !.dom = Append(@, LiveNode(text, isText)),
            !.ops = Append(@, DomOp("create", Len(w.dom) + 1, NoElm, text))]

\* nodeOps.insertBefore / nodeOps.appendChild (ref = NoElm): elm leaves the
\* parent it has, if any; a ref that is not a child of parent raises.
tInsertBefore(w, parent, elm, ref) ==
  IF ref # NoElm /\ w.dom[ref].parent # parent THEN [w EXCEPT !.raised = TRUE]
  ELSE LET from == w.dom[elm].parent
           op == DomOp(IF from = NoElm THEN "insert" ELSE "move", elm, ref, "")
       IN IF elm = ref THEN [w EXCEPT !.ops = Append(@, op)]
          ELSE LET d1 == IF from = NoElm THEN w.dom
                         ELSE [w.dom EXCEPT ![from].kids = Without(@, elm)]
                   d2 == [d1 EXCEPT ![parent].kids =
                                       IF ref = NoElm THEN Append(@, elm)
                                       ELSE InsertAt(@, IndexOf(@, ref), elm),
                                    ![elm].parent = parent]
               IN [w EXCEPT !.dom = d2, !.ops = Append(@, op)]

\* insert (patch.js 281-291)
tInsert(w, parent, elm, ref) ==
  IF parent # NoElm
  THEN IF ref # NoElm
       THEN IF w.dom[ref].parent = parent THEN tInsertBefore(w, parent, elm, ref) ELSE w
       ELSE tInsertBefore(w, parent, elm, NoElm)
  ELSE w

\* removeNode (patch.js 99-105)
tRemoveNode(w, el) ==
  LET parent == w.dom[el].parent
  IN IF parent # NoElm
     THEN [w EXCEPT !.dom = [@ EXCEPT ![parent].kids = Without(@, el), ![el].parent = NoElm],
                    !.ops = Append(@, DomOp("remove", el, NoElm, ""))]
     ELSE w

\* nodeOps.setTextContent: a text node gets the text as its data; an element
\* loses all its child nodes and, for a non-empty text, gets one text node.
tSetTextContent(w, elm, text) ==
  LET op == DomOp("setText", elm, NoElm, text)
  IN IF w.dom[elm].isText
     THEN [w EXCEPT !.dom = [@ EXCEPT ![elm].text = text], !.ops = Append(@, op)]
     ELSE LET kids == w.dom[elm].kids
              d1 == [e \in 1..Len(w.dom) |->
                       IF e = elm THEN [w.dom[e] EXCEPT !.kids = <<>>]
                       ELSE IF e \in SeqToSet(kids) THEN [w.dom[e] EXCEPT !.parent = NoElm]
                       ELSE w.dom[e]]
              d2 == IF text = "" THEN d1
                    ELSE [Append(d1, [LiveNode(text, TRUE) EXCEPT !.parent = elm])
                            EXCEPT ![elm].kids = <<Len(d1) + 1>>]
          IN [w EXCEPT !.dom = d2, !.ops = Append(@, op)]

RECURSIVE tCreateElm(_, _, _, _)
RECURSIVE tCreateChildrenFrom(_, _, _)
RECURSIVE tAddVnodes(_, _, _, _, _, _)
RECURSIVE tRemoveVnodes(_, _, _, _)
RECURSIVE tPatchVnode(_, _, _, _)
RECURSIVE tUpdateChildrenLoop(_, _, _, _, _, _)

\* createChildren (patch.js 293-304): the loop over an array of children from
\* index i on.
tCreateChildrenFrom(w, v, i) ==
  IF i > Len(w.new[v].children) THEN w
  ELSE The({tCreateChildrenFrom(w1, v, i + 1) :
              w1 \in {tCreateElm(w, w.new[v].children[i], w.new[v].elm, NoElm)}})

\* createChildren (patch.js 293-304)
tCreateChildren(w, v) ==
  IF w.new[v].hasCh THEN tCreateChildrenFrom(w, v, 1)
  ELSE IF w.new[v].text # NoText
  THEN The({tInsertBefore(w1, w.new[v].elm, Len(w1.dom), NoElm) :
              w1 \in {tCreateNode(w, w.new[v].text, TRUE)}})
  ELSE w

\* createElm (patch.js 125-211): the vnode is fresh from render, so it is not
\* cloned, and it is no component.
tCreateElm(w, v, parentEl, refElm) ==
  LET elm == Len(w.dom) + 1
  IN IF w.new[v].tag # ""
     THEN The({tInsert(w2, parentEl, elm, refElm) :
                 w2 \in {The({tCreateChildren([w1 EXCEPT !.new[v].elm = elm], v) :
                                w1 \in {tCreateNode(w, "", FALSE)}})}})
     ELSE The({tInsert([w1 EXCEPT !.new[v].elm = elm], parentEl, elm, refElm) :
                 w1 \in {tCreateNode(w, w.new[v].text, TRUE)}})

\* addVnodes (patch.js 362-366)
tAddVnodes(w, parentEl, refElm, vnodes, startIdx, endIdx) ==
  IF startIdx > endIdx THEN w
  ELSE The({tAddVnodes(w1, parentEl, refElm, vnodes, startIdx + 1, endIdx) :
              w1 \in {tCreateElm(w, vnodes[startIdx], parentEl, refElm)}})

\* removeVnodes (patch.js 382-394): vnodes holds ids of the old tree.  A child
\* with a tag goes through removeAndInvokeRemoveHook, whose rm callback
\* detaches at once (no module keeps it), and through invokeDestroyHook; a
\* text node is detached by removeNode.
tRemoveVnodes(w, vnodes, startIdx, endIdx) ==
  IF startIdx > endIdx THEN w
  ELSE The({tRemoveVnodes(w1, vnodes, startIdx + 1, endIdx) :
              w1 \in {IF vnodes[startIdx] # 0
                      THEN tRemoveNode(w, w.old[vnodes[startIdx]].elm)
                      ELSE w}})

\* The local variables of one updateChildren call.
Cursor(oldChildren, newChildren, mayMove) ==
  [oldChildren |-> oldChildren, newChildren |-> newChildren,
   oldStartIdx |-> 1, oldEndIdx |-> Len(oldChildren), newStartIdx |-> 1, newEndIdx |-> Len(newChildren),
   built |-> FALSE, map |-> [k \in Keys |-> NoIdx], mayMove |-> mayMove]

tSame(w, o, n) == sameVnode(AsSibling(w.old[o]), AsSibling(w.new[n]))

\* canMove && nodeOps.insertBefore(parentElm, elm, ref)
tMove(w, mayMove, parentEl, elm, ref) ==
  IF mayMove THEN tInsertBefore(w, parentEl, elm, ref) ELSE w

\* updateChildren (patch.js 448-499): the while loop and what follows it.
tUpdateChildrenLoop(w, parentEl, c, os, oe, ns) ==
  LET ne == c.newEndIdx
      oldChildren == c.oldChildren
      newChildren == c.newChildren
  IN IF w.raised THEN w
     ELSE IF ~(os <= oe /\ ns <= ne)
     THEN IF os > oe
          THEN LET refElm == IF ne + 1 > Len(newChildren) THEN NoElm ELSE w.new[newChildren[ne + 1]].elm
               IN tAddVnodes(w, parentEl, refElm, newChildren, ns, ne)
          ELSE IF ns > ne THEN tRemoveVnodes(w, oldChildren, os, oe)
          ELSE w
     ELSE IF oldChildren[os] = 0 THEN tUpdateChildrenLoop(w, parentEl, c, os + 1, oe, ns)
     ELSE IF oldChildren[oe] = 0 THEN tUpdateChildrenLoop(w, parentEl, c, os, oe - 1, ns)
     ELSE IF tSame(w, oldChildren[os], newChildren[ns])
     THEN The({tUpdateChildrenLoop(w1, parentEl, c, os + 1, oe, ns + 1) :
                 w1 \in {tPatchVnode(w, oldChildren[os], newChildren[ns], FALSE)}})
     ELSE IF tSame(w, oldChildren[oe], newChildren[ne])
     THEN The({tUpdateChildrenLoop(w1, parentEl, [c EXCEPT !.newEndIdx = ne - 1], os, oe - 1, ns) :
                 w1 \in {tPatchVnode(w, oldChildren[oe], newChildren[ne], FALSE)}})
     ELSE IF tSame(w, oldChildren[os], newChildren[ne])
     THEN The({tUpdateChildrenLoop(w2, parentEl, [c EXCEPT !.newEndIdx = ne - 1], os + 1, oe, ns) :
                 w2 \in {The({tMove(w1, c.mayMove, parentEl, w1.old[oldChildren[os]].elm,
                                    LET e == w1.old[oldChildren[oe]].elm
                                        kids == w1.dom[parentEl].kids
                                    IN IF w1.dom[e].parent = parentEl THEN nextSibling(kids, e)
                                       ELSE NoElm) :
                                w1 \in {tPatchVnode(w, oldChildren[os], newChildren[ne], FALSE)}})}})
     ELSE IF tSame(w, oldChildren[oe], newChildren[ns])
     THEN The({tUpdateChildrenLoop(w2, parentEl, c, os, oe - 1, ns + 1) :
                 w2 \in {The({tMove(w1, c.mayMove, parentEl, w1.old[oldChildren[oe]].elm, w1.old[oldChildren[os]].elm) :
                                w1 \in {tPatchVnode(w, oldChildren[oe], newChildren[ns], FALSE)}})}})
     ELSE LET map == IF c.built THEN c.map ELSE createKeyToOldIdx(Siblings(w.old, oldChildren), os, oe)
              newStart == AsSibling(w.new[newChildren[ns]])
              idxInOld == IF newStart.key # NoKey THEN map[newStart.key]
                          ELSE findIdxInOld(newStart, Siblings(w.old, oldChildren), os, oe)
              c1 == [c EXCEPT !.built = TRUE, !.map = map]
          IN IF idxInOld = NoIdx \/ (oldChildren[idxInOld] # 0 /\ ~tSame(w, oldChildren[idxInOld], newChildren[ns]))
             THEN The({tUpdateChildrenLoop(w1, parentEl, c1, os, oe, ns + 1) :
                         w1 \in {tCreateElm(w, newChildren[ns], parentEl, w.old[oldChildren[os]].elm)}})
             ELSE IF oldChildren[idxInOld] = 0
             THEN [w EXCEPT !.raised = TRUE]
             ELSE The({tUpdateChildrenLoop(w2, parentEl, [c1 EXCEPT !.oldChildren[idxInOld] = 0], os, oe, ns + 1) :
                         w2 \in {The({tMove(w1, c.mayMove, parentEl, w1.old[oldChildren[idxInOld]].elm, w1.old[oldChildren[os]].elm) :
                                        w1 \in {tPatchVnode(w, oldChildren[idxInOld], newChildren[ns], FALSE)}})}})

\* updateChildren (patch.js 426-500)
tUpdateChildren(w, parentEl, oldChildren, newChildren, isRemoveOnly) ==
  tUpdateChildrenLoop(w, parentEl, Cursor(oldChildren, newChildren, ~isRemoveOnly), 1, Len(oldChildren), 1)

\* patchVnode that writes the text of a text vnode whether or not it changed.
tPatchVnode_alwaysWritesText(w0, o, n, isRemoveOnly) ==
  LET w == [w0 EXCEPT !.new[n].elm = w0.old[o].elm,
                      !.patchedPairs = Append(@, <<o, n>>)]
      elm == w0.old[o].elm
      oldVnode == w0.old[o]
      vnode == w0.new[n]
  IN IF w0.raised THEN w0
     ELSE IF vnode.text = NoText
     THEN IF oldVnode.hasCh /\ vnode.hasCh
          THEN tUpdateChildren([w EXCEPT !.diffed = Append(@, <<o, n>>)], elm,
                               oldVnode.children, vnode.children, isRemoveOnly)
          ELSE IF vnode.hasCh
          THEN The({tAddVnodes(w1, elm, NoElm, vnode.children, 1, Len(vnode.children)) :
                      w1 \in {IF oldVnode.text # NoText THEN tSetTextContent(w, elm, "") ELSE w}})
          ELSE IF oldVnode.hasCh
          THEN tRemoveVnodes(w, oldVnode.children, 1, Len(oldVnode.children))
          ELSE IF oldVnode.text # NoText
          THEN tSetTextContent(w, elm, "")
          ELSE w
     ELSE tSetTextContent(w, elm, vnode.text)

\* patchVnode that appends the new children before it clears the old text.
tPatchVnode_clearsTextLast(w0, o, n, isRemoveOnly) ==
  LET w == [w0 EXCEPT !.new[n].elm = w0.old[o].elm,
                      !.patchedPairs = Append(@, <<o, n>>)]
      elm == w0.old[o].elm
      oldVnode == w0.old[o]
      vnode == w0.new[n]
  IN IF w0.raised THEN w0
     ELSE IF vnode.text = NoText
     THEN IF oldVnode.hasCh /\ vnode.hasCh
          THEN tUpdateChildren([w EXCEPT !.diffed = Append(@, <<o, n>>)], elm,
                               oldVnode.children, vnode.children, isRemoveOnly)
          ELSE IF vnode.hasCh
          THEN The({IF oldVnode.text # NoText THEN tSetTextContent(w1, elm, "") ELSE w1 :
                      w1 \in {tAddVnodes(w, elm, NoElm, vnode.children, 1, Len(vnode.children))}})
          ELSE IF oldVnode.hasCh
          THEN tRemoveVnodes(w, oldVnode.children, 1, Len(oldVnode.children))
          ELSE IF oldVnode.text # NoText
          THEN tSetTextContent(w, elm, "")
          ELSE w
     ELSE IF oldVnode.text # vnode.text
     THEN tSetTextContent(w, elm, vnode.text)
     ELSE w

\* patchVnode (patch.js 527-600).  The two vnodes are different objects, the
\* new one is fresh from render (elm undefined), and the children arrays are
\* different arrays.
tPatchVnode(w0, o, n, isRemoveOnly) ==
  LET w == [w0 EXCEPT !.new[n].elm = w0.old[o].elm,
                      !.patchedPairs = Append(@, <<o, n>>)]
      elm == w0.old[o].elm
      oldVnode == w0.old[o]
      vnode == w0.new[n]
  IN IF w0.raised THEN w0
     ELSE IF vnode.text = NoText
     THEN IF oldVnode.hasCh /\ vnode.hasCh
          THEN tUpdateChildren([w EXCEPT !.diffed = Append(@, <<o, n>>)], elm,
                               oldVnode.children, vnode.children, isRemoveOnly)
          ELSE IF vnode.hasCh
          THEN The({tAddVnodes(w1, elm, NoElm, vnode.children, 1, Len(vnode.children)) :
                      w1 \in {IF oldVnode.text # NoText THEN tSetTextContent(w, elm, "") ELSE w}})
          ELSE IF oldVnode.hasCh
          THEN tRemoveVnodes(w, oldVnode.children, 1, Len(oldVnode.children))
          ELSE IF oldVnode.text # NoText
          THEN tSetTextContent(w, elm, "")
          ELSE w
     ELSE IF oldVnode.text # vnode.text
     THEN tSetTextContent(w, elm, vnode.text)
     ELSE w

\* patch (patch.js 745-878) with a mounted old vnode and a new vnode: the
\* same-node case patches in place, otherwise the new tree is created next to
\* the old root and the old root is removed.
tPatch(w, isRemoveOnly) ==
  IF tSame(w, 1, 1) THEN tPatchVnode(w, 1, 1, isRemoveOnly)
  ELSE LET oldElm == w.old[1].elm
           parentEl == w.dom[oldElm].parent
       IN The({IF parentEl # NoElm THEN tRemoveVnodes(w1, <<1>>, 1, 1) ELSE w1 :
                 w1 \in {tCreateElm(w, 1, parentEl, nextSibling(w.dom[parentEl].kids, oldElm))}})

\* patch (patch.js 757-760) with no old vnode: the first creation of a tree,
\* mounted in the container element.
tMount(tree) ==
  tCreateElm(World(<<>>, tree, <<LiveNode("", FALSE)>>), 1, Container, NoElm)

\* ---- the vnode trees render hands to patch ----
\* A text node, a bare element, an element with a text, an element with a
\* children array, and a keyed bare element.
TKinds == {"text-a", "text-b", "div", "div-text", "div-children", "div-keyed"}

TKindVNode(kind, parent) ==
  CASE kind = "text-a" -> TVNode("", NoKey, "a", FALSE, parent)
    [] kind = "text-b" -> TVNode("", NoKey, "b", FALSE, parent)
    [] kind = "div" -> TVNode("div", NoKey, NoText, FALSE, parent)
    [] kind = "div-text" -> TVNode("div", NoKey, "a", FALSE, parent)
    [] kind = "div-children" -> TVNode("div", NoKey, NoText, TRUE, parent)
    [] kind = "div-keyed" -> TVNode("div", 1, NoText, FALSE, parent)

\* The render function adds a vnode below an element with a children array;
\* vnodes are numbered parent by parent.
TGrow(tree, kind, p) ==
  Append([tree EXCEPT ![p].children = Append(@, Len(tree) + 1)], TKindVNode(kind, p))

TCanGrow(tree, p) ==
  /\ tree # <<>>
  /\ Len(tree) < MaxTNodes
  /\ p \in 1..Len(tree)
  /\ tree[p].hasCh
  /\ p >= tree[Len(tree)].parent

opLog == <<tOps, tPatched, tDiffed>>

\* The first render builds the old tree.
TAttachOld(kind, p) ==
  /\ tPc = "old"
  /\ TCanGrow(tOld, p)
  /\ tOld' = TGrow(tOld, kind, p)
  /\ UNCHANGED <<tNew, tDom, tPc, tRemoveOnly, opLog>>

\* The first patch creates the live tree of the old vnode tree.
TMount ==
  /\ tPc = "old"
  /\ \E w \in {tMount(tOld)} :
       /\ tOld' = w.new
       /\ tDom' = w.dom
  /\ tPc' = "mounted"
  /\ UNCHANGED <<tNew, tRemoveOnly, opLog>>

\* The second render starts the new tree with its root, and goes on with it.
TRenderRoot(kind) ==
  /\ tPc = "mounted"
  /\ tNew = <<>>
  /\ kind # "div-keyed"
  /\ tNew' = <<TKindVNode(kind, 0)>>
  /\ UNCHANGED <<tOld, tDom, tPc, tRemoveOnly, opLog>>

TAttachNew(kind, p) ==
  /\ tPc = "mounted"
  /\ TCanGrow(tNew, p)
  /\ tNew' = TGrow(tNew, kind, p)
  /\ UNCHANGED <<tOld, tDom, tPc, tRemoveOnly, opLog>>

\* patch(oldVnode, vnode, false, removeOnly) with the tree of the second render
TPatch(ro) ==
  /\ tPc = "mounted"
  /\ tNew # <<>>
  /\ \E w \in {tPatch(World(tOld, tNew, tDom), ro)} :
       /\ tNew' = w.new
       /\ tDom' = w.dom
       /\ tOps' = w.ops
       /\ tPatched' = w.patchedPairs
       /\ tDiffed' = w.diffed
       /\ tPc' = IF w.raised THEN "raised" ELSE "patched"
  /\ tRemoveOnly' = ro
  /\ UNCHANGED tOld

\* patch(oldVnode, vnode) where render handed back the tree of the first
\* render itself (a cached static tree): sameVnode holds and patchVnode
\* returns at once (patch.js 534-536).
TPatchCached ==
  /\ tPc = "mounted"
  /\ tNew = <<>>
  /\ tNew' = tOld
  /\ tPc' = "patched"
  /\ UNCHANGED <<tOld, tDom, tRemoveOnly, opLog>>

TreeEntry(tree) ==
  /\ tOld = tree
  /\ tNew = <<>>
  /\ tDom = <<>>
  /\ tOps = <<>>
  /\ tPatched = <<>>
  /\ tDiffed = <<>>
  /\ tRemoveOnly = FALSE
  /\ tPc = IF tree = <<>> THEN "idle" ELSE "old"

InitTree == \E kind \in TKinds \ {"div-keyed"} : TreeEntry(<<TKindVNode(kind, 0)>>)

TreeNext ==
  \/ \E kind \in TKinds, p \in 1..MaxTNodes : TAttachOld(kind, p) /\ UNCHANGED OutsideTree
  \/ TMount /\ UNCHANGED OutsideTree
  \/ \E kind \in TKinds : TRenderRoot(kind) /\ UNCHANGED OutsideTree
  \/ \E kind \in TKinds, p \in 1..MaxTNodes : TAttachNew(kind, p) /\ UNCHANGED OutsideTree
  \/ \E ro \in BOOLEAN : TPatch(ro) /\ UNCHANGED OutsideTree
  \/ TPatchCached /\ UNCHANGED OutsideTree

(***************************************************************************)
(* Claims about patching a tree                                            *)
(***************************************************************************)
TPatchEnded == tPc \in {"patched", "raised"}

\* The vnode tree without the live nodes render does not know of.
Fresh(tree) == [n \in 1..Len(tree) |-> [tree[n] EXCEPT !.elm = NoElm]]

\* The second render produced the structure, keys and text of the first.
IdenticalRenders == tNew # <<>> /\ Fresh(tNew) = Fresh(tOld)

(* C22: patching a mounted tree against a second render with the same      *)
(* structure, keys and text makes no nodeOps call that creates, inserts,    *)
(* moves or removes a node or writes a text; the patch returns and every    *)
(* vnode of the second render holds the live node of its counterpart.       *)
C22_IdenticalRenderNoDomOps ==
  (TPatchEnded /\ IdenticalRenders) =>
    /\ tPc = "patched"
    /\ tOps = <<>>
    /\ tNew = tOld

\* A root with a text child and a keyed child has been patched against a
\* fresh render of the same tree, through patchVnode and updateChildren.
C22_Witness ==
  /\ tPc = "patched" /\ IdenticalRenders
  /\ Len(tOld) = 3
  /\ tOld[2].tag = "" /\ tOld[3].key # NoKey
  /\ tDiffed = <<<<1, 1>>>>
  /\ Len(tPatched) = 3


\* The positions in the log of the nodeOps calls of one kind on one live node.
OpsOn(op, elm) == {i \in 1..Len(tOps) : tOps[i].op = op /\ tOps[i].elm = elm}

PatchedPairs == {tPatched[i] : i \in 1..Len(tPatched)}
DiffedPairs == {tDiffed[i] : i \in 1..Len(tDiffed)}

\* The live nodes of a children array of the old or the new tree.
ElmsOf(tree, ch) == {tree[ch[i]].elm : i \in 1..Len(ch)}

MaxStaticFns == 2        \* length of $options.staticRenderFns
MaxStaticRequests == 5   \* calls of renderStatic

NoTree == 0              \* an empty slot of _staticTrees

\* renderStatic that reuses the cached tree inside v-for too.
renderStatic_reusesInFor(cached, made, index, isInFor) ==
  LET tree == cached[index]
  IN IF tree # NoTree
     THEN [cached |-> cached, made |-> made, tree |-> tree, rendered |-> FALSE]
     ELSE [cached |-> [cached EXCEPT ![index] = made + 1], made |-> made + 1,
           tree |-> made + 1, rendered |-> TRUE]

\* renderStatic (render-static.js 6-28): "made" counts the trees the static
\* render functions have returned so far.
renderStatic(cached, made, index, isInFor) ==
  LET tree == cached[index]
  IN IF tree # NoTree /\ ~isInFor
     THEN [cached |-> cached, made |-> made, tree |-> tree, rendered |-> FALSE]
     ELSE [cached |-> [cached EXCEPT ![index] = made + 1], made |-> made + 1,
           tree |-> made + 1, rendered |-> TRUE]

\* The render function reaches _m(index) or _m(index, true).
RenderStatic(index) ==
  /\ index \in 1..Len(sInFor)
  /\ Len(sLog) < MaxStaticRequests
  /\ \E r \in {renderStatic(sTrees, sMade, index, sInFor[index])} :
       /\ sTrees' = r.cached
       /\ sMade' = r.made
       /\ sLog' = Append(sLog, [index |-> index, isInFor |-> sInFor[index],
                                rendered |-> r.rendered, tree |-> r.tree])
  /\ UNCHANGED sInFor

\* A new instance: _staticTrees is created empty by the first request.
StaticEntry(inFor) ==
  /\ sInFor = inFor
  /\ sTrees = [i \in 1..Len(inFor) |-> NoTree]
  /\ sMade = 0
  /\ sLog = <<>>

InitStatic == \E n \in 1..MaxStaticFns : \E inFor \in [1..n -> BOOLEAN] : StaticEntry(inFor)

StaticNext == \E index \in 1..MaxStaticFns : RenderStatic(index) /\ UNCHANGED OutsideStatic

MaxBailChildren == 2

\* Vnodes of the tree as rendering makes them. mismatch: "kind" when the
\* server node fails assertNodeMatch, "count" when the server element has
\* child nodes left over after the loop over children, "none" otherwise.
\* A component's only kid is the root its instance renders.
BText(mismatch) ==
  [kind |-> "text", hasInsert |-> FALSE, mismatch |-> mismatch, kids |-> <<>>]
BElem(hasInsert, mismatch, kids) ==
  [kind |-> "element", hasInsert |-> hasInsert, mismatch |-> mismatch, kids |-> kids]
BComp(rendered) ==
  [kind |-> "component", hasInsert |-> TRUE, mismatch |-> "none", kids |-> <<rendered>>]

\* A vnode object: its place in the tree and the instance whose render made
\* it (0 is the instance being patched). Every construction of an instance
\* renders vnode objects of its own.
BId(path, owner) == [path |-> path, owner |-> owner]

RECURSIVE BNodeAt(_, _)
BNodeAt(node, path) ==
  IF path = <<>> THEN node ELSE BNodeAt(node.kids[Head(path)], Tail(path))

BState(insts, fired) == [insts |-> insts, fired |-> fired]
BInsertCall(id) == [hook |-> "insert", vnode |-> id, inst |-> 0]
BMountedCall(id, inst) == [hook |-> "mounted", vnode |-> id, inst |-> inst]

\* vnode.componentInstance: the init hook overwrites it at each construction.
BInstanceOf(insts, id) ==
  CHOOSE i \in 1..Len(insts) :
    /\ insts[i].vnode = id
    /\ \A j \in 1..Len(insts) : insts[j].vnode = id => j <= i

\* invokeInsertHook (line 605-615), the loop: each queued vnode's insert hook;
\* the component insert hook (create-component.js line 69-75) calls mounted
\* on vnode.componentInstance unless it is mounted already.
RECURSIVE fireInsertHooks(_, _)
fireInsertHooks(queue, s) ==
  IF queue = <<>> THEN s
  ELSE LET id == Head(queue)
           ci == BInstanceOf(s.insts, id)
           s1 == IF BNodeAt(bTree, id.path).kind = "component" /\ ~s.insts[ci].mounted
                 THEN BState([s.insts EXCEPT ![ci].mounted = TRUE],
                             s.fired \o <<BMountedCall(id, ci), BInsertCall(id)>>)
                 ELSE BState(s.insts, Append(s.fired, BInsertCall(id)))
       IN fireInsertHooks(Tail(queue), s1)

\* createElm (line 125-211) with createComponent, the child's patch without
\* an old vnode, initComponent and invokeCreateHooks: returns the queue and
\* the instances. phase names what the patched instance's patch is doing.
RECURSIVE createElmQueued(_, _, _, _, _)
RECURSIVE createChildrenQueued(_, _, _, _, _, _)
createElmQueued(node, id, queue, s, phase) ==
  IF node.kind = "component"
  THEN LET inst == Len(s.insts) + 1
           s1 == BState(Append(s.insts, [vnode |-> id, phase |-> phase, mounted |-> FALSE]),
                        s.fired)
       IN The({ [queue |-> queue \o r.queue \o <<id>>, s |-> r.s] :
                r \in {createElmQueued(node.kids[1], BId(id.path \o <<1>>, inst),
                                       <<>>, s1, phase)} })
  ELSE IF node.kind = "element"
  THEN The({ [queue |-> IF node.hasInsert THEN Append(r.queue, id) ELSE r.queue,
              s |-> r.s] :
             r \in {createChildrenQueued(node, 1, id, queue, s, phase)} })
  ELSE [queue |-> queue, s |-> s]

createChildrenQueued(node, i, id, queue, s, phase) ==
  IF i > Len(node.kids) THEN [queue |-> queue, s |-> s]
  ELSE The({ createChildrenQueued(node, i + 1, id, r.queue, r.s, phase) :
             r \in {createElmQueued(node.kids[i], BId(Append(id.path, i), id.owner),
                                    queue, s, phase)} })

\* hydrate (line 630-738) with the component init hook: the child mounts on
\* the server element with hydrating set, so its patch hydrates, and when
\* that fails goes on to createElm with the same queue and fires the queue
\* itself, isInitialPatch being false; when it succeeds the queue is left
\* as pendingInsert for initComponent.
RECURSIVE hydrateQueued(_, _, _, _, _)
RECURSIVE hydrateChildrenQueued(_, _, _, _, _, _)
hydrateQueued(node, id, queue, s, phase) ==
  IF node.mismatch = "kind" THEN [ok |-> FALSE, queue |-> queue, s |-> s]
  ELSE IF node.kind = "component"
  THEN LET inst == Len(s.insts) + 1
           rid == BId(id.path \o <<1>>, inst)
           s1 == BState(Append(s.insts, [vnode |-> id, phase |-> phase, mounted |-> FALSE]),
                        s.fired)
       IN The({ IF h.ok
                THEN [ok |-> TRUE, queue |-> queue \o h.queue \o <<id>>, s |-> h.s]
                ELSE The({ [ok |-> TRUE, queue |-> Append(queue, id),
                            s |-> fireInsertHooks(c.queue, c.s)] :
                           c \in {createElmQueued(node.kids[1], rid, h.queue, h.s, phase)} }) :
                h \in {hydrateQueued(node.kids[1], rid, <<>>, s1, phase)} })
  ELSE IF node.kind = "element"
  THEN The({ IF ~r.ok \/ node.mismatch = "count"
             THEN [ok |-> FALSE, queue |-> r.queue, s |-> r.s]
             ELSE [ok |-> TRUE,
                   queue |-> IF node.hasInsert THEN Append(r.queue, id) ELSE r.queue,
                   s |-> r.s] :
             r \in {hydrateChildrenQueued(node, 1, id, queue, s, phase)} })
  ELSE [ok |-> TRUE, queue |-> queue, s |-> s]

hydrateChildrenQueued(node, i, id, queue, s, phase) ==
  IF i > Len(node.kids) THEN [ok |-> TRUE, queue |-> queue, s |-> s]
  ELSE The({ IF r.ok THEN hydrateChildrenQueued(node, i + 1, id, r.queue, r.s, phase)
             ELSE r :
             r \in {hydrateQueued(node.kids[i], BId(Append(id.path, i), id.owner),
                                  queue, s, phase)} })

\* patch (line 790-791): hydrate(oldVnode, vnode, insertedVnodeQueue).
BailHydrate ==
  /\ bPc = "hydrate"
  /\ LET r == hydrateQueued(bTree, BId(<<>>, 0), bQueue, BState(bInsts, bFired), "hydrate")
     IN /\ bQueue' = r.queue
        /\ bInsts' = r.s.insts
        /\ bFired' = r.s.fired
        /\ bPc' = IF r.ok THEN "hydrated" ELSE "bailed"
        /\ bBailed' = ~r.ok
  /\ UNCHANGED bTree

\* patch (line 807-825): emptyNodeAt, then createElm(vnode, insertedVnodeQueue,
\* ...) with the queue hydrate was given.
BailCreate ==
  /\ bPc = "bailed"
  /\ LET r == createElmQueued(bTree, BId(<<>>, 0), bQueue, BState(bInsts, bFired), "create")
     IN /\ bQueue' = r.queue
        /\ bInsts' = r.s.insts
        /\ bFired' = r.s.fired
  /\ bPc' = "created"
  /\ UNCHANGED <<bTree, bBailed>>

\* patch (line 794 and 869): invokeInsertHook on a vnode without a parent
\* fires the queue.
BailInsert ==
  /\ bPc \in {"hydrated", "created"}
  /\ LET s == fireInsertHooks(bQueue, BState(bInsts, bFired))
     IN /\ bInsts' = s.insts
        /\ bFired' = s.fired
  /\ bPc' = "done"
  /\ UNCHANGED <<bTree, bQueue, bBailed>>

BailLeaves ==
  {BText("none"), BText("kind"),
   BElem(TRUE, "none", <<>>), BElem(FALSE, "count", <<>>),
   BComp(BElem(TRUE, "none", <<>>)), BComp(BElem(FALSE, "kind", <<>>)),
   BComp(BElem(FALSE, "none", <<BComp(BElem(FALSE, "none", <<>>))>>)),
   BComp(BElem(FALSE, "count", <<BComp(BElem(FALSE, "none", <<>>))>>))}
BailRoots ==
  {BElem(hasInsert, mismatch, kids) :
     hasInsert \in BOOLEAN, mismatch \in {"none", "kind", "count"},
     kids \in SeqsUpTo(BailLeaves, MaxBailChildren)}

BailEntry(tree) ==
  /\ bTree = tree
  /\ bPc = "hydrate"
  /\ bBailed = FALSE
  /\ bQueue = <<>>
  /\ bInsts = <<>>
  /\ bFired = <<>>

InitBail == \E tree \in BailRoots : BailEntry(tree)

BailNext ==
  \/ BailHydrate /\ UNCHANGED OutsideBail
  \/ BailCreate /\ UNCHANGED OutsideBail
  \/ BailInsert /\ UNCHANGED OutsideBail

\* The hooks the last step of patch invoked: those after the queue was
\* complete.
BStale(id) == id.owner # 0 /\ bInsts[id.owner].phase = "hydrate"

\* C33: when hydration fails and patch falls back to full creation, the
\* insert hooks invoked are exactly those of the freshly created tree: no
\* vnode queued during the failed attempt has its insert hook invoked (so
\* no vnode's hook runs more than once, and none of a tree rendered by an
\* instance of the failed attempt), and no component instance created
\* during the failed attempt receives its mounted callback.
C33_BailedHydrationFiresFreshTreeOnly ==
  (bPc = "done" /\ bBailed) =>
    /\ \A k \in 1..Len(bFired) : ~BStale(bFired[k].vnode)
    /\ \A k, l \in 1..Len(bFired) :
         (k # l /\ bFired[k].hook = "insert" /\ bFired[l].hook = "insert")
           => bFired[k].vnode # bFired[l].vnode
    /\ \A i \in 1..Len(bInsts) : bInsts[i].phase = "hydrate" => ~bInsts[i].mounted

(***************************************************************************)
(* keep-alive: render, pruneCacheEntry and the patch that follows a render *)
(***************************************************************************)
MaxKaRenders == 5
MaxKaMax == 2

\* The component in the default slot: its name, its vnode key ("" when it
\* has none) and whether include / exclude let it be cached.
KaChild(name, key, filtered) == [name |-> name, key |-> key, filtered |-> filtered]
KaChildren ==
  {KaChild("a", "", FALSE), KaChild("b", "", FALSE),
   KaChild("a", "k1", FALSE), KaChild("a", "k2", FALSE),
   KaChild("c", "", TRUE)}

\* vnode.tag of a component vnode (create-component.js: vue-component-cid-name).
KaTag(child) == "vue-component-" \o child.name
\* The cache key (line 106-110).
KaKey(child) == IF child.key = "" THEN "cid::" \o child.name ELSE child.key
KaKeyNames == {KaKey(c) : c \in KaChildren}

NotCached == ""
NoEntry == [vid |-> 0, tag |-> "", inst |-> 0]
NoKaVnode == [vid |-> 0, tag |-> "", key |-> "", inst |-> 0, keepAlive |-> FALSE]
KaInst == [destroyed |-> FALSE, inactive |-> FALSE]

\* remove (shared/util): drops the first occurrence of item.
RemoveItem(arr, item) ==
  IF \E i \in 1..Len(arr) : arr[i] = item
  THEN LET at == CHOOSE i \in 1..Len(arr) :
                   arr[i] = item /\ \A j \in 1..(i - 1) : arr[j] # item
       IN SubSeq(arr, 1, at - 1) \o SubSeq(arr, at + 1, Len(arr))
  ELSE arr

KaState(cache, keys, insts, pruned) ==
  [cache |-> cache, keys |-> keys, insts |-> insts, pruned |-> pruned]

pruneCacheEntry_keepsKey(st, key, current) ==
  LET cached == st.cache[key]
      destroy == cached # NoEntry /\ (current = NoKaVnode \/ cached.tag # current.tag)
  IN KaState([st.cache EXCEPT ![key] = NoEntry], st.keys,
             IF destroy THEN [st.insts EXCEPT ![cached.inst].destroyed = TRUE] ELSE st.insts,
             IF cached # NoEntry THEN st.pruned \cup {cached.inst} ELSE st.pruned)

\* pruneCacheEntry (line 41-53): $destroy on the cached instance unless the
\* cached vnode has the tag of the one on display; the entry goes either way.
pruneCacheEntry(st, key, current) ==
  LET cached == st.cache[key]
      destroy == cached # NoEntry /\ (current = NoKaVnode \/ cached.tag # current.tag)
  IN KaState([st.cache EXCEPT ![key] = NoEntry], RemoveItem(st.keys, key),
             IF destroy THEN [st.insts EXCEPT ![cached.inst].destroyed = TRUE] ELSE st.insts,
             IF cached # NoEntry THEN st.pruned \cup {cached.inst} ELSE st.pruned)

\* render (line 87-129) for a slot holding the component child.
KaRender(child) ==
  /\ kaPending = NoKaVnode
  /\ Len(kaRenders) < MaxKaRenders
  /\ LET vid == Len(kaRenders) + 1
         key == KaKey(child)
         st == KaState(kaCache, kaKeys, kaInsts, kaPruned)
     IN IF child.filtered
        THEN /\ kaPending' = [vid |-> vid, tag |-> KaTag(child), key |-> child.key,
                              inst |-> 0, keepAlive |-> FALSE]
             /\ kaRenders' = Append(kaRenders, NotCached)
             /\ UNCHANGED <<kaCache, kaKeys, kaInsts, kaPruned>>
        ELSE LET hit == kaCache[key] # NoEntry
                 added == KaState([kaCache EXCEPT ![key] =
                                     [vid |-> vid, tag |-> KaTag(child), inst |-> 0]],
                                  Append(kaKeys, key), kaInsts, kaPruned)
                 r == IF hit
                      THEN KaState(kaCache, Append(RemoveItem(kaKeys, key), key),
                                   kaInsts, kaPruned)
                      ELSE IF Len(added.keys) > kaMax
                      THEN pruneCacheEntry(added, added.keys[1], kaVnode)
                      ELSE added
             IN /\ kaCache' = r.cache
                /\ kaKeys' = r.keys
                /\ kaInsts' = r.insts
                /\ kaPruned' = r.pruned
                /\ kaPending' = [vid |-> vid, tag |-> KaTag(child), key |-> child.key,
                                 inst |-> IF hit THEN kaCache[key].inst ELSE 0,
                                 keepAlive |-> TRUE]
                /\ kaRenders' = Append(kaRenders, key)
  /\ UNCHANGED <<kaMax, kaVnode>>

\* sameVnode (patch.js line 35-50) on two component vnodes.
KaSameVnode(a, b) == a.key = b.key /\ a.tag = b.tag

\* _update after render: patch(this._vnode, vnode). Same vnodes go through
\* the prepatch hook, which hands the old instance on; otherwise the init
\* hook (create-component.js line 37-52) reuses a live kept-alive instance
\* or constructs one, the insert hook activates it, and the old vnode's
\* destroy hook (line 87-96) destroys its instance, or only deactivates it
\* when the vnode is marked keepAlive.
KaPatch ==
  /\ kaPending # NoKaVnode
  /\ LET old == kaVnode
         same == old # NoKaVnode /\ KaSameVnode(old, kaPending)
         reuse == /\ kaPending.inst # 0 /\ kaPending.keepAlive
                  /\ ~kaInsts[kaPending.inst].destroyed
         inst == IF same THEN old.inst
                 ELSE IF reuse THEN kaPending.inst
                 ELSE Len(kaInsts) + 1
         made == IF inst > Len(kaInsts) THEN Append(kaInsts, KaInst) ELSE kaInsts
         shown == [made EXCEPT ![inst].inactive = FALSE]
         left == IF old = NoKaVnode \/ same \/ shown[old.inst].destroyed THEN shown
                 ELSE IF old.keepAlive THEN [shown EXCEPT ![old.inst].inactive = TRUE]
                 ELSE [shown EXCEPT ![old.inst].destroyed = TRUE]
     IN /\ kaInsts' = left
        /\ kaVnode' = [kaPending EXCEPT !.inst = inst]
        /\ kaCache' = [k \in KaKeyNames |->
                         IF kaCache[k].vid = kaPending.vid
                         THEN [kaCache[k] EXCEPT !.inst = inst] ELSE kaCache[k]]
  /\ kaPending' = NoKaVnode
  /\ UNCHANGED <<kaMax, kaKeys, kaRenders, kaPruned>>

KaEntry(max) ==
  /\ kaMax = max
  /\ kaCache = [k \in KaKeyNames |-> NoEntry]
  /\ kaKeys = <<>>
  /\ kaVnode = NoKaVnode
  /\ kaPending = NoKaVnode
  /\ kaInsts = <<>>
  /\ kaRenders = <<>>
  /\ kaPruned = {}

InitKa == \E max \in 1..MaxKaMax : KaEntry(max)

KaNext ==
  \/ \E child \in KaChildren : KaRender(child) /\ UNCHANGED OutsideKa
  \/ KaPatch /\ UNCHANGED OutsideKa

KaCached == {k \in KaKeyNames : kaCache[k] # NoEntry}
KaCachedInsts == {kaCache[k].inst : k \in KaCached}
KaDisplayed(i) == kaVnode # NoKaVnode /\ kaVnode.inst = i

\* C37: every instance evicted from the cache is destroyed, at the moment of
\* eviction or, if it is the one on display, by the time it stops being
\* displayed: an instance that was pruned and is not cached again is
\* destroyed or still on display.
C37_EvictedIsDestroyed ==
  \A i \in kaPruned :
    i \in KaCachedInsts \/ kaInsts[i].destroyed \/ KaDisplayed(i)

\* The position of the last render that cached key k.
KaLastRender(k) ==
  CHOOSE n \in 0..Len(kaRenders) :
    /\ n > 0 => kaRenders[n] = k
    /\ \A m \in (n + 1)..Len(kaRenders) : kaRenders[m] # k

KaListMatchesCache ==
  /\ \A i, j \in 1..Len(kaKeys) : i # j => kaKeys[i] # kaKeys[j]
  /\ Len(kaKeys) <= kaMax
  /\ {kaKeys[i] : i \in 1..Len(kaKeys)} = KaCached

\* An entry that leaves the cache is the least recently rendered of those
\* cached before the step.
KaEvictsLeastRecent ==
  \A k \in KaCached :
    kaCache'[k] = NoEntry => \A other \in KaCached : KaLastRender(k) <= KaLastRender(other)

\* C38: after every render with a fixed max, the keys list has no duplicates
\* and at most max entries, the cache holds a vnode for exactly the keys in
\* the list, the key of the component just rendered is last in the list,
\* and the entry evicted on overflow is the least recently rendered one.
C38_KeysAreLru ==
  /\ [](KaListMatchesCache
          /\ (kaPending # NoKaVnode =>
                kaKeys # <<>> /\ kaKeys[Len(kaKeys)] = kaRenders[Len(kaRenders)]))
  /\ [][KaEvictsLeastRecent]_vars

\* C38 for the renders that reach the cache: a component that include or
\* exclude keeps out of the cache is returned as it is, and the list and the
\* cache stay as they were.
C38_KeysAreLruWhenCached ==
  /\ [](KaListMatchesCache
          /\ ((kaPending # NoKaVnode /\ kaPending.keepAlive) =>
                kaKeys # <<>> /\ kaKeys[Len(kaKeys)] = kaRenders[Len(kaRenders)]))
  /\ [][KaEvictsLeastRecent]_vars
  /\ [][(kaPending' # NoKaVnode /\ ~kaPending'.keepAlive)
          => (kaKeys' = kaKeys /\ kaCache' = kaCache)]_vars

\* A full cache of two met a third key after a hit had made the older entry
\* the fresher one: the entry evicted was the other one.
C38_Witness ==
  /\ kaMax = 2 /\ kaPending # NoKaVnode
  /\ Len(kaRenders) = 4
  /\ kaRenders[1] = kaRenders[3] /\ kaRenders[2] # kaRenders[1]
  /\ kaRenders[2] # NotCached /\ kaRenders[1] # NotCached /\ kaRenders[4] # NotCached
  /\ kaKeys = <<kaRenders[1], kaRenders[4]>>
  /\ kaCache[kaRenders[2]] = NoEntry

(***************************************************************************)
(* Replacing a root: patch on an old and a new vnode that are not the same *)
(***************************************************************************)
MaxSiblings == 1
MaxAncestors == 2
MaxHeld == 2

\* The old root: tagged (a text root has no tag), hasData, leaveCb (its
\* element is in a leaving transition), held (the remove hooks, module or
\* own, that keep rm for the end of a transition).
RpOld(tagged, hasData, leaveCb, held) ==
  [tagged |-> tagged, hasData |-> hasData, leaveCb |-> leaveCb, held |-> held]

RpIndex(dom, name) == CHOOSE i \in 1..Len(dom) : dom[i] = name
RpHas(dom, name) == \E i \in 1..Len(dom) : dom[i] = name

\* insert (patch.js line 281-291) of the new element before ref, or at the
\* end when there is no ref.
rpInsert_atEnd(dom, ref) == Append(dom, "new")

rpInsert(dom, ref) ==
  IF ref = "" THEN Append(dom, "new")
  ELSE IF RpHas(dom, ref)
  THEN LET at == RpIndex(dom, ref)
       IN SubSeq(dom, 1, at - 1) \o <<"new">> \o SubSeq(dom, at, Len(dom))
  ELSE dom

\* removeNode (line 99-105)
rpRemoveNode(dom, name) == SelectSeq(dom, LAMBDA n : n # name)

\* patch (line 812-865) once old and new are found not to be the same:
\* createElm with the old element's parent and next sibling (no parent when
\* the old element has a leave callback), the placeholder chain, then
\* removeVnodes when there is a parent, invokeDestroyHook otherwise.
RpPatch ==
  /\ rpPc = "patch"
  /\ LET at == RpIndex(rpDom, "old")
         refElm == IF rpHasParent /\ at < Len(rpDom) THEN rpDom[at + 1] ELSE ""
         inserts == rpHasParent /\ ~rpOld.leaveCb
         created == IF inserts THEN rpInsert(rpDom, refElm) ELSE rpDom
         waits == rpOld.tagged /\ rpOld.hasData /\ rpOld.held > 0
         removes == rpHasParent /\ ~waits
     IN /\ rpDom' = IF removes THEN rpRemoveNode(created, "old") ELSE created
        /\ rpWaiting' = IF rpHasParent /\ waits THEN rpOld.held ELSE 0
        /\ rpLog' = <<"create">> \o (IF inserts THEN <<"insert">> ELSE <<>>)
                      \o (IF rpAncestors # <<>> THEN <<"ancestors">> ELSE <<>>)
                      \o (IF removes THEN <<"detach">> ELSE <<>>)
                      \o (IF rpOld.tagged THEN <<"destroy">> ELSE <<>>)
  /\ rpAncestors' = [i \in 1..Len(rpAncestors) |-> "new"]
  /\ rpPc' = "returned"
  /\ UNCHANGED <<rpOld, rpHasParent>>

\* remove() of createRmCb (line 90-94) called by a hook that kept it: the
\* last one takes the old element out.
RpCallback ==
  /\ rpPc = "returned"
  /\ rpWaiting > 0
  /\ rpWaiting' = rpWaiting - 1
  /\ IF rpWaiting = 1
     THEN /\ rpDom' = rpRemoveNode(rpDom, "old")
          /\ rpLog' = Append(rpLog, "detach")
     ELSE UNCHANGED <<rpDom, rpLog>>
  /\ UNCHANGED <<rpOld, rpHasParent, rpAncestors, rpPc>>

RpEntry(old, before, after, hasParent, nAncestors) ==
  /\ rpOld = old
  /\ rpHasParent = hasParent
  /\ rpDom = IF hasParent
             THEN [i \in 1..before |-> "before"] \o <<"old">> \o [i \in 1..after |-> "after"]
             ELSE <<"old">>
  /\ rpAncestors = [i \in 1..nAncestors |-> "old"]
  /\ rpWaiting = 0
  /\ rpLog = <<>>
  /\ rpPc = "patch"

InitRp ==
  \E tagged \in BOOLEAN, hasData \in BOOLEAN, leaveCb \in BOOLEAN, held \in 0..MaxHeld,
     before \in 0..MaxSiblings, after \in 0..MaxSiblings, hasParent \in BOOLEAN,
     nAncestors \in 0..MaxAncestors :
    /\ hasData => tagged
    /\ held > 0 => hasData
    /\ leaveCb => (tagged /\ hasParent)
    /\ ~hasParent => (before = 0 /\ after = 0)
    /\ RpEntry(RpOld(tagged, hasData, leaveCb, held), before, after, hasParent, nAncestors)

RpNext ==
  \/ RpPatch /\ UNCHANGED OutsideRp
  \/ RpCallback /\ UNCHANGED OutsideRp

RpBefore(first, second) ==
  \E i, j \in 1..Len(rpLog) : i < j /\ rpLog[i] = first /\ rpLog[j] = second
RpLogged(what) == \E i \in 1..Len(rpLog) : rpLog[i] = what
RpNewAfterOld ==
  /\ RpHas(rpDom, "new")
  /\ RpHas(rpDom, "old") => RpIndex(rpDom, "new") = RpIndex(rpDom, "old") + 1
  /\ \A i \in 1..Len(rpDom) :
       /\ rpDom[i] = "before" => i < RpIndex(rpDom, "new")
       /\ rpDom[i] = "after" => i > RpIndex(rpDom, "new")

\* C31: when patch is given old and new roots that are not the same node,
\* the new live subtree is created and inserted next to the old live root
\* before the old subtree is removed, every ancestor placeholder's elm is
\* updated to the new live root, and after patch returns the old live root
\* is no longer attached to the parent.
C31_ReplaceInsertsThenRemoves ==
  (rpPc = "returned" /\ rpHasParent) =>
    /\ RpLogged("create") /\ RpLogged("insert")
    /\ RpNewAfterOld
    /\ RpLogged("detach") => (RpBefore("create", "detach") /\ RpBefore("insert", "detach"))
    /\ \A i \in 1..Len(rpAncestors) : rpAncestors[i] = "new"
    /\ ~RpHas(rpDom, "old")

\* C31 as the code has it: the new subtree is always created first and every
\* placeholder of the chain points at it when patch returns; it is inserted
\* right after the old element's place unless the old element has no parent
\* or is in a leaving transition; the old element is taken out of its
\* parent before patch returns unless a remove hook kept the callback, in
\* which case it stays until the last such hook has called back.
C31_ReplaceInsertsThenRemovesUnlessHeld ==
  rpPc = "returned" =>
    /\ RpLogged("create")
    /\ RpLogged("detach") => RpBefore("create", "detach")
    /\ \A i \in 1..Len(rpAncestors) : rpAncestors[i] = "new"
    /\ (rpHasParent /\ ~rpOld.leaveCb) =>
         /\ RpNewAfterOld
         /\ RpLogged("detach") => RpBefore("insert", "detach")
    /\ (~rpHasParent \/ rpOld.leaveCb) => ~RpHas(rpDom, "new")
    /\ rpHasParent => (RpHas(rpDom, "old") <=> rpWaiting > 0)
    /\ rpWaiting > 0 => rpOld.held > 0

\* The old root sat between two siblings below two placeholders and a
\* transition held it back: it left only with the last callback, after patch
\* had returned, the new element staying in its place.
C31_Witness ==
  /\ rpPc = "returned" /\ rpOld.held = MaxHeld /\ rpWaiting = 0
  /\ rpDom = <<"before", "new", "after">>
  /\ rpAncestors = <<"new", "new">>
  /\ rpLog = <<"create", "insert", "ancestors", "destroy", "detach">>

(***************************************************************************)
(* Specifications                                                          *)
(***************************************************************************)
\* A subsystem that is not running: its variables at rest.
UCIdle == UCEntry(<<>>, <<>>, FALSE)
ParseIdle == InitParse

LcIdle == InitLc
HydIdle == HydEntry(DElem("div", <<>>, "server"), HElem("div", FALSE, <<>>), FALSE)
RmIdle == RmEntry(<<RmVNode(FALSE, FALSE, 0)>>, FALSE, 0)
MountIdle ==
  /\ mNodes = <<>> /\ mFrames = <<>> /\ mQueues = <<>>
  /\ pendingInsert = <<>> /\ mCreated = {} /\ insertLog = <<>> /\ hookLog = <<>>

RenderIdle == RenderEntry(FALSE, FALSE)

OptIdle == OptEntry(<<>>)

GenIdle == GenEntry(<<>>)

TreeIdle == TreeEntry(<<>>)

StaticIdle == sInFor = <<>> /\ sTrees = <<>> /\ sMade = 0 /\ sLog = <<>>

BailIdle ==
  /\ bTree = BText("none") /\ bPc = "idle" /\ bBailed = FALSE
  /\ bQueue = <<>> /\ bInsts = <<>> /\ bFired = <<>>

KaIdle ==
  /\ kaMax = 0 /\ kaCache = <<>> /\ kaKeys = <<>> /\ kaVnode = NoKaVnode
  /\ kaPending = NoKaVnode /\ kaInsts = <<>> /\ kaRenders = <<>> /\ kaPruned = {}

RpIdle ==
  /\ rpOld = RpOld(FALSE, FALSE, FALSE, 0) /\ rpDom = <<>> /\ rpHasParent = FALSE
  /\ rpAncestors = <<>> /\ rpWaiting = 0 /\ rpLog = <<>> /\ rpPc = "idle" 

SpecKeyedInit == InitKeyed /\ ParseIdle /\ LcIdle /\ MountIdle /\ RmIdle /\ HydIdle /\ RenderIdle /\ OptIdle /\ GenIdle /\ TreeIdle /\ StaticIdle /\ BailIdle /\ KaIdle /\ RpIdle
SpecKeyed == SpecKeyedInit /\ [][UCNext]_vars

SpecAnyInit == InitAny /\ ParseIdle /\ LcIdle /\ MountIdle /\ RmIdle /\ HydIdle /\ RenderIdle /\ OptIdle /\ GenIdle /\ TreeIdle /\ StaticIdle /\ BailIdle /\ KaIdle /\ RpIdle
SpecAny == SpecAnyInit /\ [][UCNext]_vars

SpecEitherInit == InitEither /\ ParseIdle /\ LcIdle /\ MountIdle /\ RmIdle /\ HydIdle /\ RenderIdle /\ OptIdle /\ GenIdle /\ TreeIdle /\ StaticIdle /\ BailIdle /\ KaIdle /\ RpIdle
SpecEither == SpecEitherInit /\ [][UCNext]_vars

SpecParseInit == InitParse /\ UCIdle /\ LcIdle /\ MountIdle /\ RmIdle /\ HydIdle /\ RenderIdle /\ OptIdle /\ GenIdle /\ TreeIdle /\ StaticIdle /\ BailIdle /\ KaIdle /\ RpIdle
SpecParse == SpecParseInit /\ [][ParseNext]_vars

SpecLcInit == InitLc /\ UCIdle /\ ParseIdle /\ MountIdle /\ RmIdle /\ HydIdle /\ RenderIdle /\ OptIdle /\ GenIdle /\ TreeIdle /\ StaticIdle /\ BailIdle /\ KaIdle /\ RpIdle
SpecLc == SpecLcInit /\ [][LcNext]_vars

SpecMountInit == InitMount /\ UCIdle /\ ParseIdle /\ LcIdle /\ RmIdle /\ HydIdle /\ RenderIdle /\ OptIdle /\ GenIdle /\ TreeIdle /\ StaticIdle /\ BailIdle /\ KaIdle /\ RpIdle
SpecMount == SpecMountInit /\ [][MountNext]_vars

SpecRmInit == InitRm /\ UCIdle /\ ParseIdle /\ LcIdle /\ MountIdle /\ HydIdle /\ RenderIdle /\ OptIdle /\ GenIdle /\ TreeIdle /\ StaticIdle /\ BailIdle /\ KaIdle /\ RpIdle
SpecRm == SpecRmInit /\ [][RmNext]_vars

SpecHydInit == InitHyd /\ UCIdle /\ ParseIdle /\ LcIdle /\ MountIdle /\ RmIdle /\ RenderIdle /\ OptIdle /\ GenIdle /\ TreeIdle /\ StaticIdle /\ BailIdle /\ KaIdle /\ RpIdle
SpecHyd == SpecHydInit /\ [][HydNext]_vars

SpecRenderInit == InitRender /\ UCIdle /\ ParseIdle /\ LcIdle /\ HydIdle /\ RmIdle /\ MountIdle /\ OptIdle /\ GenIdle /\ TreeIdle /\ StaticIdle /\ BailIdle /\ KaIdle /\ RpIdle
SpecRender == SpecRenderInit /\ [][RenderNext]_vars

SpecOptInit == InitOpt /\ UCIdle /\ ParseIdle /\ LcIdle /\ HydIdle /\ RmIdle /\ MountIdle /\ RenderIdle /\ GenIdle /\ TreeIdle /\ StaticIdle /\ BailIdle /\ KaIdle /\ RpIdle
SpecOpt == SpecOptInit /\ [][OptNext]_vars
SpecRootsInit == InitRoots /\ UCIdle /\ ParseIdle /\ LcIdle /\ HydIdle /\ RmIdle /\ MountIdle /\ RenderIdle /\ GenIdle /\ TreeIdle /\ StaticIdle /\ BailIdle /\ KaIdle /\ RpIdle
SpecRoots == SpecRootsInit /\ [][RootsNext]_vars

SpecGenInit == InitGen /\ UCIdle /\ ParseIdle /\ LcIdle /\ HydIdle /\ RmIdle /\ MountIdle /\ RenderIdle /\ OptIdle /\ TreeIdle /\ StaticIdle /\ BailIdle /\ KaIdle /\ RpIdle
SpecGen == SpecGenInit /\ [][GenNext]_vars

SpecTreeInit == InitTree /\ UCIdle /\ ParseIdle /\ LcIdle /\ HydIdle /\ RmIdle /\ MountIdle /\ RenderIdle /\ OptIdle /\ GenIdle /\ StaticIdle /\ BailIdle /\ KaIdle /\ RpIdle
SpecTree == SpecTreeInit /\ [][TreeNext]_vars

SpecStaticInit == InitStatic /\ UCIdle /\ ParseIdle /\ LcIdle /\ HydIdle /\ RmIdle /\ MountIdle /\ RenderIdle /\ OptIdle /\ GenIdle /\ TreeIdle /\ BailIdle /\ KaIdle /\ RpIdle
SpecStatic == SpecStaticInit /\ [][StaticNext]_vars

SpecBailInit == InitBail /\ UCIdle /\ ParseIdle /\ LcIdle /\ HydIdle /\ RmIdle /\ MountIdle /\ RenderIdle /\ OptIdle /\ GenIdle /\ TreeIdle /\ StaticIdle /\ KaIdle /\ RpIdle
SpecBail == SpecBailInit /\ [][BailNext]_vars

SpecKaInit == InitKa /\ UCIdle /\ ParseIdle /\ LcIdle /\ HydIdle /\ RmIdle /\ MountIdle /\ RenderIdle /\ OptIdle /\ GenIdle /\ TreeIdle /\ StaticIdle /\ BailIdle /\ RpIdle
SpecKa == SpecKaInit /\ [][KaNext]_vars

SpecRpInit == InitRp /\ UCIdle /\ ParseIdle /\ LcIdle /\ HydIdle /\ RmIdle /\ MountIdle /\ RenderIdle /\ OptIdle /\ GenIdle /\ TreeIdle /\ StaticIdle /\ BailIdle /\ KaIdle
SpecRp == SpecRpInit /\ [][RpNext]_vars

====
